---- MODULE Spec2Model ----
(***************************************************************************)
(* Conto Termico simulator (simulatorecontotermico-arquati.com/js/app.js). *)
(*                                                                         *)
(* The file holds two programs: the browser application (lines 1-769) with *)
(* its offline copy of the incentive engine, and the Node server (lines    *)
(* 771-1156) with the primary copy behind POST /api/public/calculate.      *)
(*                                                                         *)
(* Numbers.  JavaScript numbers are modelled as exact rationals <<n, d>>   *)
(* in lowest terms with d > 0.  The inputs are decimal literals with few   *)
(* digits, for which the IEEE-754 results of the engine, after round2 and  *)
(* toFixed, agree with the exact ones; the Number.EPSILON guard of round2  *)
(* is below the resolution of the model and has no effect on such values.  *)
(*                                                                         *)
(* Strings.  A JavaScript string is a sequence of one-character strings,   *)
(* so that trim, case mapping, replace, startsWith and parseFloat are      *)
(* computed character by character as the code does.                       *)
(***************************************************************************)
EXTENDS Integers, Sequences, FiniteSets, TLC

(***************************************************************************)
(* Exact rational arithmetic                                               *)
(***************************************************************************)
Abs(i) == IF i < 0 THEN -i ELSE i

RECURSIVE Gcd(_, _)
Gcd(a, b) == IF b = 0 THEN a ELSE Gcd(b, a % b)

\* floor of a / b for b > 0 (\div of TLA+ already rounds toward minus infinity)
FloorDiv(a, b) == a \div b

Rat(n, d) ==
    LET g == Gcd(Abs(n), Abs(d))
        s == IF d < 0 THEN -1 ELSE 1
    IN  IF n = 0 THEN <<0, 1>> ELSE <<s * (n \div g), s * (d \div g)>>

RInt(i) == <<i, 1>>
RZero == <<0, 1>>

\* cross-cancelling product: keeps the intermediate integers small
RMul(a, b) ==
    IF a[1] = 0 \/ b[1] = 0 THEN RZero
    ELSE LET g1 == Gcd(Abs(a[1]), b[2])
             g2 == Gcd(Abs(b[1]), a[2])
         IN  <<(a[1] \div g1) * (b[1] \div g2), (a[2] \div g2) * (b[2] \div g1)>>

RNeg(a) == <<-a[1], a[2]>>

RAdd(a, b) ==
    LET g == Gcd(a[2], b[2])
    IN  Rat(a[1] * (b[2] \div g) + b[1] * (a[2] \div g), (a[2] \div g) * b[2])

RSub(a, b) == RAdd(a, RNeg(b))

\* a / b for b # 0
RDiv(a, b) ==
    IF b[1] < 0 THEN RMul(a, <<-b[2], -b[1]>>) ELSE RMul(a, <<b[2], b[1]>>)

\* the sign of a - b decides every comparison
RLt(a, b) == RSub(a, b)[1] < 0
RLe(a, b) == RSub(a, b)[1] <= 0
RGt(a, b) == RLt(b, a)
RGe(a, b) == RLe(b, a)

\* Math.min on two finite numbers
MathMin(a, b) == IF RLe(a, b) THEN a ELSE b

\* Math.round: the nearest integer, halves toward plus infinity
MathRound(a) == FloorDiv(2 * a[1] + a[2], 2 * a[2])

(***************************************************************************)
(* IEEE 754 binary64: the arithmetic of a JavaScript Number, for values    *)
(* in the normal range: a number is sgn * m * 2^e with a 53-bit m, and     *)
(* every operation rounds its exact result to nearest, ties to even.  The  *)
(* naturals that hold m and the exact results are sequences of 13-bit      *)
(* limbs, least significant first, without leading zeros.                  *)
(***************************************************************************)
Pow2 == <<1, 2, 4, 8, 16, 32, 64, 128, 256, 512, 1024, 2048, 4096, 8192>>
LimbBits == Len(Pow2) - 1
Limb == Pow2[LimbBits + 1]

\* the element of a set of one element, which is evaluated here
Only(S) == CHOOSE v \in S : TRUE

BLimb(a, i) == IF i \in DOMAIN a THEN a[i] ELSE 0
BTop(a) == IF \E i \in DOMAIN a : a[i] # 0
           THEN CHOOSE i \in DOMAIN a : a[i] # 0 /\ \A j \in (i + 1)..Len(a) : a[j] = 0
           ELSE 0
BNorm(a) == SubSeq(a, 1, BTop(a))
BOf(n) == BNorm(<<n % Limb, (n \div Limb) % Limb, n \div (Limb * Limb)>>)
BWider(a, b) == IF Len(a) < Len(b) THEN Len(b) ELSE Len(a)

\* a + b: the carry into limb i comes from a limb below that overflows,
\* through limbs that are full
BCarry(a, b, i) ==
    IF \E j \in 1..(i - 1) : /\ BLimb(a, j) + BLimb(b, j) >= Limb
                             /\ \A k \in (j + 1)..(i - 1) : BLimb(a, k) + BLimb(b, k) = Limb - 1
    THEN 1 ELSE 0
BAdd(a, b) ==
    BNorm([i \in 1..(BWider(a, b) + 1) |-> (BLimb(a, i) + BLimb(b, i) + BCarry(a, b, i)) % Limb])

\* a - b for a >= b
BBorrow(a, b, i) ==
    IF \E j \in 1..(i - 1) : /\ BLimb(a, j) < BLimb(b, j)
                             /\ \A k \in (j + 1)..(i - 1) : BLimb(a, k) = BLimb(b, k)
    THEN 1 ELSE 0
BSub(a, b) ==
    BNorm([i \in 1..Len(a) |-> (BLimb(a, i) - BLimb(b, i) - BBorrow(a, b, i) + Limb) % Limb])

BLt(a, b) ==
    \E i \in 1..BWider(a, b) : /\ BLimb(a, i) < BLimb(b, i)
                               /\ \A j \in (i + 1)..BWider(a, b) : BLimb(a, j) = BLimb(b, j)
BLe(a, b) == ~BLt(b, a)

\* a * 2^k
BShl(a, k) ==
    LET shifted(q, p) ==
            [i \in 1..(Len(a) + q + 1) |->
                ((BLimb(a, i - q) * p) % Limb) + ((BLimb(a, i - q - 1) * p) \div Limb)]
    IN  BNorm(shifted(k \div LimbBits, Pow2[(k % LimbBits) + 1]))

\* floor(a / 2^k)
BShr(a, k) ==
    LET shifted(q, r) ==
            [i \in 1..Len(a) |->
                (BLimb(a, i + q) \div Pow2[r + 1])
                    + ((BLimb(a, i + q + 1) % Pow2[r + 1]) * Pow2[LimbBits - r + 1])]
    IN  BNorm(shifted(k \div LimbBits, k % LimbBits))

\* a * b for an a of at most five limbs: the columns of the long
\* multiplication, then their three base-Limb digits added up
BColumn(a, b, i) ==
    BLimb(a, 1) * BLimb(b, i) + BLimb(a, 2) * BLimb(b, i - 1) + BLimb(a, 3) * BLimb(b, i - 2)
        + BLimb(a, 4) * BLimb(b, i - 3) + BLimb(a, 5) * BLimb(b, i - 4)
BMul(a, b) ==
    LET n == Len(a) + Len(b) + 2
        lo == [i \in 1..n |-> BColumn(a, b, i) % Limb]
        mid == [i \in 1..n |-> (BColumn(a, b, i - 1) \div Limb) % Limb]
        hi == [i \in 1..n |-> BColumn(a, b, i - 2) \div (Limb * Limb)]
    IN  Only({BAdd(lm, BNorm(hi)) : lm \in {BAdd(BNorm(lo), BNorm(mid))}})

BitLen(a) ==
    IF a = <<>> THEN 0
    ELSE LimbBits * (Len(a) - 1)
            + (CHOOSE k \in 1..LimbBits : Pow2[k] <= a[Len(a)] /\ a[Len(a)] < Pow2[k + 1])

BOdd(a) == a # <<>> /\ a[1] % 2 = 1

FZero == [sgn |-> 1, m |-> <<>>, e |-> 0]
\* NaN, Infinity and -Infinity
FNotFinite == [sgn |-> 0, m |-> <<>>, e |-> 0]

\* the Number nearest to sgn * (n + f) * 2^e, 0 <= f < 1, where sticky says
\* that f is not zero (then n has more than 54 bits)
FRound(sgn, n, e, sticky) ==
    LET fit(q, k) ==
            IF BitLen(q) > 53 THEN [sgn |-> sgn, m |-> BShr(q, 1), e |-> e + k + 1]
            ELSE [sgn |-> sgn, m |-> q, e |-> e + k]
        up(q, r, half) ==
            IF BLt(half, r) \/ (r = half /\ (sticky \/ BOdd(q))) THEN BAdd(q, <<1>>) ELSE q
        cut(k) ==
            Only({fit(rounded, k) :
                    rounded \in {up(q, BSub(n, BShl(q, k)), BShl(<<1>>, k - 1)) :
                                    q \in {BShr(n, k)}}})
        sized(len) ==
            IF len <= 53 THEN [sgn |-> sgn, m |-> BShl(n, 53 - len), e |-> e - (53 - len)]
            ELSE cut(len - 53)
    IN  IF n = <<>> THEN FZero ELSE Only({sized(len) : len \in {BitLen(n)}})

\* an integer below 2^31
FromInt(i) == FRound(IF i < 0 THEN -1 ELSE 1, BOf(IF i < 0 THEN -i ELSE i), 0, FALSE)

FNeg(a) == [a EXCEPT !.sgn = -a.sgn]

\* a + b
FAdd(a, b) ==
    LET sum(e, x, y) ==
            IF a.sgn = b.sgn THEN FRound(a.sgn, BAdd(x, y), e, FALSE)
            ELSE IF BLt(x, y) THEN FRound(b.sgn, BSub(y, x), e, FALSE)
            ELSE FRound(a.sgn, BSub(x, y), e, FALSE)
        aligned(e) == Only({sum(e, x, y) : x \in {BShl(a.m, a.e - e)}, y \in {BShl(b.m, b.e - e)}})
    IN  IF a.sgn = 0 \/ b.sgn = 0 THEN FNotFinite
        ELSE IF a.m = <<>> THEN b
        ELSE IF b.m = <<>> THEN a
        ELSE aligned(IF a.e < b.e THEN a.e ELSE b.e)
FSub(a, b) == FAdd(a, FNeg(b))

FMul(a, b) ==
    IF a.sgn = 0 \/ b.sgn = 0 THEN FNotFinite
    ELSE IF a.m = <<>> \/ b.m = <<>> THEN FZero
    ELSE Only({FRound(a.sgn * b.sgn, n, a.e + b.e, FALSE) : n \in {BMul(a.m, b.m)}})

\* floor(r / d) for r < d * Limb: the quotient of the leading limbs of r
\* and d, once d is shifted to fill its top limb, is at most 2 too large
BDigit(r, d) ==
    LET top(rs, ds) == (BLimb(rs, Len(ds) + 1) * Limb + BLimb(rs, Len(ds))) \div ds[Len(ds)]
        fits(c, rs, ds) ==
            \E lo \in {BMul(<<c>>, ds)} : \E hi \in {BAdd(lo, ds)} : BLe(lo, rs) /\ BLt(rs, hi)
        digit(rs, ds, qhat) == CHOOSE c \in (qhat - 2)..qhat : c >= 0 /\ fits(c, rs, ds)
        estimate(rs, ds) ==
            Only({digit(rs, ds, qhat) :
                    qhat \in {IF top(rs, ds) >= Limb THEN Limb - 1 ELSE top(rs, ds)}})
        filled(s) == Only({estimate(rs, ds) : rs \in {BShl(r, s)}, ds \in {BShl(d, s)}})
    IN  Only({filled(s) : s \in {(LimbBits - (BitLen(d) % LimbBits)) % LimbBits}})

\* the next n base-Limb digits of r / d for r < d * Limb, put below the
\* digits q found so far, and what is left of r (times Limb^n)
RECURSIVE BDivide(_, _, _, _)
BDivide(r, d, n, q) ==
    IF n = 0 THEN [q |-> BNorm(q), r |-> r]
    ELSE Only({BDivide(left, d, n - 1, <<c>> \o q) :
                 left \in {BShl(BSub(r, BMul(<<c>>, d)), LimbBits) : c \in {BDigit(r, d)}},
                 c \in {BDigit(r, d)}})

\* a / b: six base-Limb digits of the quotient of the two 53-bit m, rounded
FDiv(a, b) ==
    IF a.sgn = 0 \/ b.m = <<>> THEN FNotFinite
    ELSE IF a.m = <<>> THEN FZero
    ELSE Only({FRound(a.sgn * b.sgn, qr.q, a.e - b.e - (5 * LimbBits), qr.r # <<>>) :
                 qr \in {BDivide(a.m, b.m, 6, <<>>)}})

\* a < b, a <= b
FLt(a, b) ==
    LET negative(x) == x.m # <<>> /\ x.sgn = -1
    IN  negative(FSub(a, b))
FLe(a, b) == ~FLt(b, a)

\* the Number that a decimal literal with the value r = <<n, d>> denotes
F64(r) == FDiv(FromInt(r[1]), FromInt(r[2]))

(***************************************************************************)
(* Strings as sequences of characters                                      *)
(***************************************************************************)
Digits == <<"0", "1", "2", "3", "4", "5", "6", "7", "8", "9">>
Lowers == <<"a", "b", "c", "d", "e", "f", "g", "h", "i", "j", "k", "l", "m",
            "n", "o", "p", "q", "r", "s", "t", "u", "v", "w", "x", "y", "z">>
Uppers == <<"A", "B", "C", "D", "E", "F", "G", "H", "I", "J", "K", "L", "M",
            "N", "O", "P", "Q", "R", "S", "T", "U", "V", "W", "X", "Y", "Z">>
WhiteSpace == {" ", "\t"}

IsDigit(c) == \E i \in DOMAIN Digits : Digits[i] = c
DigitVal(c) == (CHOOSE i \in DOMAIN Digits : Digits[i] = c) - 1

ToLowerChar(c) ==
    IF \E i \in DOMAIN Uppers : Uppers[i] = c
    THEN Lowers[CHOOSE i \in DOMAIN Uppers : Uppers[i] = c] ELSE c
ToUpperChar(c) ==
    IF \E i \in DOMAIN Lowers : Lowers[i] = c
    THEN Uppers[CHOOSE i \in DOMAIN Lowers : Lowers[i] = c] ELSE c

ToLowerCase(s) == [i \in DOMAIN s |-> ToLowerChar(s[i])]
ToUpperCase(s) == [i \in DOMAIN s |-> ToUpperChar(s[i])]

\* String.prototype.trim
RECURSIVE TrimLeft(_)
TrimLeft(s) == IF s # <<>> /\ Head(s) \in WhiteSpace THEN TrimLeft(Tail(s)) ELSE s
RECURSIVE TrimRight(_)
TrimRight(s) ==
    IF s # <<>> /\ s[Len(s)] \in WhiteSpace THEN TrimRight(SubSeq(s, 1, Len(s) - 1)) ELSE s
Trim(s) == TrimRight(TrimLeft(s))

\* s.replace(/\s/g, "") and s.replace(/\s+/g, "")
RemoveWhiteSpace(s) == SelectSeq(s, LAMBDA c : c \notin WhiteSpace)

Includes(s, c) == \E i \in DOMAIN s : s[i] = c
StartsWith(s, p) == Len(s) >= Len(p) /\ SubSeq(s, 1, Len(p)) = p

\* s.replace(c, r): the first occurrence only (a string pattern, not /g)
ReplaceFirst(s, c, r) ==
    IF Includes(s, c)
    THEN LET k == CHOOSE i \in DOMAIN s : s[i] = c /\ \A j \in 1..(i - 1) : s[j] # c
         IN  [s EXCEPT ![k] = r]
    ELSE s

\* the decimal digits of a natural number
RECURSIVE NatToChars(_)
NatToChars(n) == IF n < 10 THEN <<Digits[n + 1]>> ELSE NatToChars(n \div 10) \o <<Digits[(n % 10) + 1]>>

RECURSIVE Pow10(_)
Pow10(k) == IF k = 0 THEN 1 ELSE 10 * Pow10(k - 1)

\* the natural number written by a sequence of digits (0 for the empty one)
RECURSIVE CharsToNat(_)
CharsToNat(s) == IF s = <<>> THEN 0 ELSE 10 * CharsToNat(SubSeq(s, 1, Len(s) - 1)) + DigitVal(s[Len(s)])

\* the longest prefix of s made of digits
RECURSIVE DigitPrefix(_)
DigitPrefix(s) == IF s # <<>> /\ IsDigit(Head(s)) THEN <<Head(s)>> \o DigitPrefix(Tail(s)) ELSE <<>>

(***************************************************************************)
(* JavaScript values that a JSON payload can carry in a scalar position    *)
(***************************************************************************)
JNum(r) == [t |-> "number", n |-> r, s |-> <<>>]
JStr(s) == [t |-> "string", n |-> RZero, s |-> s]
JUndef == [t |-> "undefined", n |-> RZero, s |-> <<>>]
JNull == [t |-> "null", n |-> RZero, s |-> <<>>]

\* the operand of `x || y` counts as false
Falsy(v) ==
    \/ v.t \in {"undefined", "null"}
    \/ v.t = "string" /\ v.s = <<>>
    \/ v.t = "number" /\ v.n[1] = 0

\* Number -> String for a number with a terminating decimal expansion of at
\* most MaxFractionDigits digits: sign, integer part, and the fraction
\* without trailing zeros
MaxFractionDigits == 6
FractionDigits(r) == CHOOSE k \in 0..MaxFractionDigits :
                        /\ Pow10(k) % r[2] = 0
                        /\ \A j \in 0..(k - 1) : Pow10(j) % r[2] # 0
RECURSIVE PadLeft(_, _)
PadLeft(s, k) == IF Len(s) >= k THEN s ELSE PadLeft(<<"0">> \o s, k)
NumberToString(r) ==
    LET k == FractionDigits(r)
        m == Abs(r[1]) * (Pow10(k) \div r[2])
        ip == NatToChars(m \div Pow10(k))
        fp == IF k = 0 THEN <<>> ELSE <<".">> \o PadLeft(NatToChars(m % Pow10(k)), k)
    IN  (IF r[1] < 0 THEN <<"-">> ELSE <<>>) \o ip \o fp

\* String(v)
\* a Number that is NaN, Infinity or -Infinity is <<0, 0>>, <<1, 0>> or <<-1, 0>>
\* a variant that takes every Number for a finite one
NumberIsFinite_Always(n) == TRUE
NumberIsFinite(n) == n[2] # 0
JNaN == [t |-> "number", n |-> <<0, 0>>, s |-> <<>>]
JInfinity == [t |-> "number", n |-> <<1, 0>>, s |-> <<>>]
JMinusInfinity == [t |-> "number", n |-> <<-1, 0>>, s |-> <<>>]

ToStringJS(v) ==
    CASE v.t = "string" -> v.s
      [] v = JNaN -> <<"N", "a", "N">>
      [] v = JInfinity -> <<"I", "n", "f", "i", "n", "i", "t", "y">>
      [] v = JMinusInfinity -> <<"-", "I", "n", "f", "i", "n", "i", "t", "y">>
      [] v.t = "number" -> NumberToString(v.n)
      [] v.t = "null" -> <<"n", "u", "l", "l">>
      [] OTHER -> <<"u", "n", "d", "e", "f", "i", "n", "e", "d">>

\* parseFloat on a string without leading white space: the longest prefix
\* [+-]? digits [. digits], NaN (ok = FALSE) when it holds no digit.  The
\* exponent part of the grammar cannot occur: the callers strip every
\* character outside [0-9.-] first.
parseFloat(s) ==
    LET neg == s # <<>> /\ Head(s) = "-"
        r0 == IF s # <<>> /\ Head(s) \in {"-", "+"} THEN Tail(s) ELSE s
        ip == DigitPrefix(r0)
        r1 == SubSeq(r0, Len(ip) + 1, Len(r0))
        fp == IF r1 # <<>> /\ Head(r1) = "." THEN DigitPrefix(Tail(r1)) ELSE <<>>
        mag == Rat(CharsToNat(ip) * Pow10(Len(fp)) + CharsToNat(fp), Pow10(Len(fp)))
    IN  IF ip = <<>> /\ fp = <<>> THEN [ok |-> FALSE, v |-> RZero]
        ELSE [ok |-> TRUE, v |-> IF neg THEN RNeg(mag) ELSE mag]

\* Number.prototype.toFixed(1): the nearest tenth, halves away from zero,
\* always with one fractional digit, "-" kept for a negative number
\* a variant that drops the digits after the first decimal
toFixed1_Truncated(x) ==
    LET n == FloorDiv(Abs(x[1]) * 10, x[2])
    IN  (IF x[1] < 0 THEN <<"-">> ELSE <<>>) \o NatToChars(n \div 10) \o <<".", Digits[(n % 10) + 1]>>

toFixed1(x) ==
    LET a == <<Abs(x[1]), x[2]>>
        n == MathRound(RMul(a, RInt(10)))
    IN  (IF x[1] < 0 THEN <<"-">> ELSE <<>>) \o NatToChars(n \div 10) \o <<".", Digits[(n % 10) + 1]>>

(***************************************************************************)
(* Browser copy of the engine (app.js lines 85-241)                        *)
(***************************************************************************)
parseNumberLike(input) ==
    IF input.t = "number" /\ NumberIsFinite(input.n) THEN input.n
    ELSE IF input.t \in {"null", "undefined"} THEN RZero
    ELSE LET s0 == Trim(ToStringJS(input))
             s1 == RemoveWhiteSpace(s0)
             s2 == IF Includes(s1, ",") /\ Includes(s1, ".")
                   THEN ReplaceFirst(SelectSeq(s1, LAMBDA c : c # "."), ",", ".")
                   ELSE IF Includes(s1, ",") THEN ReplaceFirst(s1, ",", ".")
                   ELSE s1
             s3 == SelectSeq(s2, LAMBDA c : IsDigit(c) \/ c \in {".", "-"})
             n == parseFloat(s3)
         IN  IF s0 = <<>> THEN RZero
             ELSE IF n.ok THEN n.v ELSE RZero

round2(n) == Rat(MathRound(RMul(n, RInt(100))), 100)

\* a variant that measures t from the far end
lerp_FromEnd(a, b, t) == RAdd(b, RMul(RSub(a, b), t))

lerp(a, b, t) == RAdd(a, RMul(RSub(b, a), t))

\* the local `v` of the code is the parameter of `at`
interpolate(points, x) ==
    LET n == Len(points)
        hit(v, i) == RGe(v, points[i][1]) /\ RLe(v, points[i + 1][1])
        segment(v, i) ==
            lerp(points[i][2], points[i + 1][2],
                 RDiv(RSub(v, points[i][1]), RSub(points[i + 1][1], points[i][1])))
        at(v) ==
            IF n = 0 THEN RInt(1)
            ELSE IF RLe(v, points[1][1]) THEN points[1][2]
            ELSE IF RGe(v, points[n][1]) THEN points[n][2]
            ELSE IF \E i \in 1..(n - 1) : hit(v, i)
            THEN segment(v, CHOOSE i \in 1..(n - 1) : hit(v, i) /\ \A j \in 1..(i - 1) : ~hit(v, j))
            ELSE RInt(1)
    IN  at(parseNumberLike(x))

PDC_K_ZONA ==
    [A |-> Rat(11609, 100), B |-> Rat(16447, 100), C |-> Rat(21284, 100),
     D |-> Rat(27088, 100), E |-> Rat(32893, 100), F |-> Rat(34828, 100)]

IBRIDO_K_ZONA ==
    [A |-> Rat(14757, 100), B |-> Rat(20906, 100), C |-> Rat(27054, 100),
     D |-> Rat(34433, 100), E |-> Rat(41811, 100), F |-> Rat(44271, 100)]

G_PDC_POINTS ==
    << <<Rat(2, 1), Rat(6202, 10000)>>, <<Rat(3, 1), Rat(8269, 10000)>>,
       <<Rat(35, 10), Rat(886, 1000)>>, <<Rat(4, 1), Rat(9303, 10000)>>,
       <<Rat(516, 100), Rat(1, 1)>>, <<Rat(6, 1), Rat(10337, 10000)>>,
       <<Rat(7, 1), Rat(10632, 10000)>>, <<Rat(10, 1), Rat(11163, 10000)>> >>

G_IBRIDO_POINTS ==
    << <<Rat(2, 1), Rat(6931, 10000)>>, <<Rat(3, 1), Rat(9241, 10000)>>,
       <<Rat(35, 10), Rat(9901, 10000)>>, <<Rat(359, 100), Rat(1, 1)>>,
       <<Rat(4, 1), Rat(10396, 10000)>>, <<Rat(5, 1), Rat(11089, 10000)>>,
       <<Rat(6, 1), Rat(11551, 10000)>>, <<Rat(10, 1), Rat(12475, 10000)>> >>

\* lerp and interpolate as the browser computes them, in binary64: the
\* coordinates of `points` are the Numbers their literals denote, and `ret`
\* names the return statement that ends the call
lerp64(a, b, t) == FAdd(a, FMul(FSub(b, a), t))

interpolate64(points, x) ==
    LET n == Len(points)
        px(i) == F64(points[i][1])
        py(i) == F64(points[i][2])
        hit(v, i) == FLe(px(i), v) /\ FLe(v, px(i + 1))
        segment(v, i) ==
            lerp64(py(i), py(i + 1), FDiv(FSub(v, px(i)), FSub(px(i + 1), px(i))))
        at(v) ==
            IF n = 0 THEN [ret |-> "empty", value |-> FromInt(1)]
            ELSE IF FLe(v, px(1)) THEN [ret |-> "first", value |-> py(1)]
            ELSE IF FLe(px(n), v) THEN [ret |-> "last", value |-> py(n)]
            ELSE IF \E i \in 1..(n - 1) : hit(v, i)
            THEN [ret |-> "segment",
                  value |-> segment(v, CHOOSE i \in 1..(n - 1) :
                                          hit(v, i) /\ \A j \in 1..(i - 1) : ~hit(v, j))]
            ELSE [ret |-> "fallback", value |-> FromInt(1)]
    IN  Only({at(v) : v \in {F64(parseNumberLike(x))}})


(***************************************************************************)
(* Request payload and result rows                                         *)
(*                                                                         *)
(* payload.tipologia      intervention.tipologia: a list of class          *)
(*                        identifiers, or a value that is not an array     *)
(* payload.value_vat      value_vat: class identifier -> scalar            *)
(* payload.dati_tecnici   dati_tecnici: class identifier -> array of       *)
(*                        records, or a value that is not an array         *)
(* payload.zona           property.address.immobile.zona_climatica,        *)
(*                        JUndef when any link of the chain is missing     *)
(***************************************************************************)
NotAnArray == [isArray |-> FALSE, items |-> <<>>]
ArrayOf(items) == [isArray |-> TRUE, items |-> items]

\* a technical record without any field: the `{}` of the code
NoFields ==
    [classe_energetica |-> JUndef, energia_termica |-> JUndef, tipo_collettori |-> JUndef,
     potenza_nominale |-> JUndef, efficienza_stagionale |-> JUndef, scop_sper_cop |-> JUndef,
     pdc_potenza |-> JUndef, pdc_efficienza |-> JUndef, pdc_scop_sper_cop |-> JUndef,
     tipologia_scambio |-> JUndef]

\* obj?.[key] on a mapping to scalars / to arrays
GetScalar(obj, key) == IF key \in DOMAIN obj THEN obj[key] ELSE JUndef
GetArray(obj, key) == IF key \in DOMAIN obj THEN obj[key] ELSE NotAnArray

\* texts are kept as sequences of pieces; the text is their concatenation
NoText == <<>>

(***************************************************************************)
(* computeIncentiveForTipologia, browser copy                              *)
(***************************************************************************)
Supported == {"scaldacqua", "solare_termico", "pompa_calore", "sistema_ibrido"}

totale_vat(tipologia, payload) == parseNumberLike(GetScalar(payload.value_vat, tipologia))

tipData(tipologia, payload) ==
    LET a == GetArray(payload.dati_tecnici, tipologia)
    IN  IF a.isArray /\ Len(a.items) > 0 THEN a.items[1] ELSE NoFields

\* a variant that forgets toUpperCase
zona_NoUpperCase(payload) ==
    Trim(ToStringJS(IF Falsy(payload.zona) THEN JStr(<<"E">>) ELSE payload.zona))

zona(payload) ==
    ToUpperCase(Trim(ToStringJS(IF Falsy(payload.zona) THEN JStr(<<"E">>) ELSE payload.zona)))

\* TABLE[zona] || TABLE.E : the own keys of the tables are the one-letter
\* strings A..F, and no inherited property name is upper case
kZona(table, z) ==
    IF Len(z) = 1 /\ z[1] \in DOMAIN table THEN table[z[1]] ELSE table.E

percentuale(tipologia) ==
    CASE tipologia = "scaldacqua" -> Rat(4, 10)
      [] tipologia \in {"solare_termico", "pompa_calore", "sistema_ibrido"} -> Rat(65, 100)
      [] OTHER -> RZero

\* lines 180-186
cap_scaldacqua(td) ==
    LET v == td.classe_energetica
        cls == RemoveWhiteSpace(ToLowerCase(Trim(ToStringJS(IF Falsy(v) THEN JStr(<<>>) ELSE v))))
    IN  IF StartsWith(cls, <<"a", "+">>) THEN RInt(700)
        ELSE IF StartsWith(cls, <<"a">>) THEN RInt(500) ELSE RZero

\* lines 187-192
cap_solare_termico(td) ==
    LET energia == parseNumberLike(td.energia_termica)
        v == td.tipo_collettori
        tipo == ToLowerCase(Trim(ToStringJS(IF Falsy(v) THEN JStr(<<>>) ELSE v)))
        k == IF tipo = <<"p", "i", "a", "n", "i">> THEN Rat(7, 10)
             ELSE IF tipo = <<"f", "a", "c", "t", "o", "r", "y", "_", "m", "a", "d", "e">>
             THEN Rat(1945, 10000) ELSE RZero
    IN  RMul(energia, k)

\* lines 193-199
cap_pompa_calore(td, payload) ==
    LET potenza == parseNumberLike(td.potenza_nominale)
        eff == RDiv(parseNumberLike(td.efficienza_stagionale), RInt(100))
        scop == parseNumberLike(td.scop_sper_cop)
    IN  RMul(RMul(RMul(potenza, eff), kZona(PDC_K_ZONA, zona(payload))),
             interpolate(G_PDC_POINTS, JNum(scop)))

\* lines 200-206
cap_sistema_ibrido(td, payload) ==
    LET potenza == parseNumberLike(td.pdc_potenza)
        eff == RDiv(parseNumberLike(td.pdc_efficienza), RInt(100))
        scop == parseNumberLike(td.pdc_scop_sper_cop)
    IN  RMul(RMul(RMul(potenza, eff), kZona(IBRIDO_K_ZONA, zona(payload))),
             interpolate(G_IBRIDO_POINTS, JNum(scop)))

\* a variant that tests the plain "a" before "a+", so that "a+" gets 500
incentivo_max_PlainABeforeAPlus(tipologia, payload) ==
    LET td == tipData(tipologia, payload)
        v == td.classe_energetica
        cls == RemoveWhiteSpace(ToLowerCase(Trim(ToStringJS(IF Falsy(v) THEN JStr(<<>>) ELSE v))))
    IN  CASE tipologia = "scaldacqua" ->
               IF StartsWith(cls, <<"a">>) THEN RInt(500)
               ELSE IF StartsWith(cls, <<"a", "+">>) THEN RInt(700) ELSE RZero
          [] tipologia = "solare_termico" -> cap_solare_termico(td)
          [] tipologia = "pompa_calore" -> cap_pompa_calore(td, payload)
          [] tipologia = "sistema_ibrido" -> cap_sistema_ibrido(td, payload)
          [] OTHER -> RZero

\* a variant that generalises the zone to the zone-unaware classes: outside
\* zone E their cap is scaled like the heat-pump one
incentivo_max_ZoneForEveryClass(tipologia, payload) ==
    LET td == tipData(tipologia, payload)
        scale == IF kZona(PDC_K_ZONA, zona(payload)) = PDC_K_ZONA.E THEN RInt(1) ELSE Rat(1, 2)
    IN  CASE tipologia = "scaldacqua" -> RMul(cap_scaldacqua(td), scale)
          [] tipologia = "solare_termico" -> RMul(cap_solare_termico(td), scale)
          [] tipologia = "pompa_calore" -> cap_pompa_calore(td, payload)
          [] tipologia = "sistema_ibrido" -> cap_sistema_ibrido(td, payload)
          [] OTHER -> RZero

\* lines 177-206: incentivo_max as the class chain leaves it
incentivo_max(tipologia, payload) ==
    LET td == tipData(tipologia, payload)
    IN  CASE tipologia = "scaldacqua" -> cap_scaldacqua(td)
          [] tipologia = "solare_termico" -> cap_solare_termico(td)
          [] tipologia = "pompa_calore" -> cap_pompa_calore(td, payload)
          [] tipologia = "sistema_ibrido" -> cap_sistema_ibrido(td, payload)
          [] OTHER -> RZero

\* a variant that clamps the gross incentive at zero
incentivo_lordo_ClampedAtZero(tipologia, payload) ==
    LET m == MathMin(incentivo_max(tipologia, payload),
                     RMul(percentuale(tipologia), totale_vat(tipologia, payload)))
    IN  IF RLt(m, RZero) THEN RZero ELSE m

\* line 217: the gross incentive before rounding
incentivo_lordo(tipologia, payload) ==
    MathMin(incentivo_max(tipologia, payload),
            RMul(percentuale(tipologia), totale_vat(tipologia, payload)))

\* a variant with a mistyped factor
NettoFactor_Mistyped == Rat(9875, 10000)

\* line 218: the factor of the net incentive
NettoFactor == Rat(9878, 10000)

computeIncentiveForTipologia(tipologia, payload) ==
    LET percent_reale(tot, lordo) ==
            IF RGt(tot, RZero) THEN RMul(RDiv(lordo, tot), RInt(100)) ELSE RZero
        row(tot, lordo) ==
            IF tipologia \notin Supported
            THEN [totale_vat |-> round2(tot), incentivo_lordo |-> RZero,
                  incentivo_netto |-> RZero, percent_reale |-> <<"0", ".", "0">>,
                  warnings |-> <<"Tipologia '", tipologia, "' non implementata nel calcolo locale.">>]
            ELSE [totale_vat |-> round2(tot), incentivo_lordo |-> round2(lordo),
                  incentivo_netto |-> round2(RMul(lordo, NettoFactor)),
                  percent_reale |-> toFixed1(percent_reale(tot, lordo)),
                  warnings |-> NoText]
    IN  row(totale_vat(tipologia, payload), incentivo_lordo(tipologia, payload))

\* the range of a list of class identifiers: the keys of `data`
Keys(list) == {list[i] : i \in DOMAIN list}

NoData == [k \in {} |-> 0]

\* a variant without the guard on the empty list
calculateLocally_NoEmptyCheck(payload) ==
    LET tipologie == IF payload.tipologia.isArray THEN payload.tipologia.items ELSE <<>>
    IN  [success |-> TRUE, error |-> NoText, hasData |-> TRUE,
         data |-> [tip \in Keys(tipologie) |-> computeIncentiveForTipologia(tip, payload)]]

calculateLocally(payload) ==
    LET tipologie == IF payload.tipologia.isArray THEN payload.tipologia.items ELSE <<>>
    IN  IF Len(tipologie) = 0
        THEN [success |-> FALSE, error |-> <<"Nessuna tipologia di intervento selezionata.">>,
              hasData |-> FALSE, data |-> NoData]
        ELSE [success |-> TRUE, error |-> NoText, hasData |-> TRUE,
              data |-> [tip \in Keys(tipologie) |-> computeIncentiveForTipologia(tip, payload)]]

(***************************************************************************)
(* Server copy of the helpers (app.js lines 815-896)                       *)
(***************************************************************************)
srv_parseNumberLike(input) ==
    IF input.t = "number" /\ NumberIsFinite(input.n) THEN input.n
    ELSE IF input.t \in {"null", "undefined"} THEN RZero
    ELSE LET s0 == Trim(ToStringJS(input))
             s1 == RemoveWhiteSpace(s0)
             s2 == IF Includes(s1, ",") /\ Includes(s1, ".")
                   THEN ReplaceFirst(SelectSeq(s1, LAMBDA c : c # "."), ",", ".")
                   ELSE IF Includes(s1, ",") THEN ReplaceFirst(s1, ",", ".")
                   ELSE s1
             s3 == SelectSeq(s2, LAMBDA c : IsDigit(c) \/ c \in {".", "-"})
             n == parseFloat(s3)
         IN  IF s0 = <<>> THEN RZero
             ELSE IF n.ok THEN n.v ELSE RZero

srv_round2(n) == Rat(MathRound(RMul(n, RInt(100))), 100)

srv_lerp(a, b, t) == RAdd(a, RMul(RSub(b, a), t))

\* the local `v` of the code is the parameter of `at`
srv_interpolate(points, x) ==
    LET n == Len(points)
        hit(v, i) == RGe(v, points[i][1]) /\ RLe(v, points[i + 1][1])
        segment(v, i) ==
            srv_lerp(points[i][2], points[i + 1][2],
                 RDiv(RSub(v, points[i][1]), RSub(points[i + 1][1], points[i][1])))
        at(v) ==
            IF n = 0 THEN RInt(1)
            ELSE IF RLe(v, points[1][1]) THEN points[1][2]
            ELSE IF RGe(v, points[n][1]) THEN points[n][2]
            ELSE IF \E i \in 1..(n - 1) : hit(v, i)
            THEN segment(v, CHOOSE i \in 1..(n - 1) : hit(v, i) /\ \A j \in 1..(i - 1) : ~hit(v, j))
            ELSE RInt(1)
    IN  at(srv_parseNumberLike(x))

srv_PDC_K_ZONA ==
    [A |-> Rat(11609, 100), B |-> Rat(16447, 100), C |-> Rat(21284, 100),
     D |-> Rat(27088, 100), E |-> Rat(32893, 100), F |-> Rat(34828, 100)]

srv_IBRIDO_K_ZONA ==
    [A |-> Rat(14757, 100), B |-> Rat(20906, 100), C |-> Rat(27054, 100),
     D |-> Rat(34433, 100), E |-> Rat(41811, 100), F |-> Rat(44271, 100)]

srv_G_PDC_POINTS ==
    << <<Rat(2, 1), Rat(6202, 10000)>>, <<Rat(3, 1), Rat(8269, 10000)>>,
       <<Rat(35, 10), Rat(886, 1000)>>, <<Rat(4, 1), Rat(9303, 10000)>>,
       <<Rat(516, 100), Rat(1, 1)>>, <<Rat(6, 1), Rat(10337, 10000)>>,
       <<Rat(7, 1), Rat(10632, 10000)>>, <<Rat(10, 1), Rat(11163, 10000)>> >>

srv_G_IBRIDO_POINTS ==
    << <<Rat(2, 1), Rat(6931, 10000)>>, <<Rat(3, 1), Rat(9241, 10000)>>,
       <<Rat(35, 10), Rat(9901, 10000)>>, <<Rat(359, 100), Rat(1, 1)>>,
       <<Rat(4, 1), Rat(10396, 10000)>>, <<Rat(5, 1), Rat(11089, 10000)>>,
       <<Rat(6, 1), Rat(11551, 10000)>>, <<Rat(10, 1), Rat(12475, 10000)>> >>

(***************************************************************************)
(* computeIncentiveForTipologia, server copy                               *)
(***************************************************************************)
srv_Supported == {"scaldacqua", "solare_termico", "pompa_calore", "sistema_ibrido"}

srv_totale_vat(tipologia, payload) == srv_parseNumberLike(GetScalar(payload.value_vat, tipologia))

srv_tipData(tipologia, payload) ==
    LET a == GetArray(payload.dati_tecnici, tipologia)
    IN  IF a.isArray /\ Len(a.items) > 0 THEN a.items[1] ELSE NoFields

srv_zona(payload) ==
    ToUpperCase(Trim(ToStringJS(IF Falsy(payload.zona) THEN JStr(<<"E">>) ELSE payload.zona)))

\* TABLE[zona] || TABLE.E : the own keys of the tables are the one-letter
\* strings A..F, and no inherited property name is upper case
srv_kZona(table, z) ==
    IF Len(z) = 1 /\ z[1] \in DOMAIN table THEN table[z[1]] ELSE table.E

srv_percentuale(tipologia) ==
    CASE tipologia = "scaldacqua" -> Rat(4, 10)
      [] tipologia \in {"solare_termico", "pompa_calore", "sistema_ibrido"} -> Rat(65, 100)
      [] OTHER -> RZero

srv_incentivo_max(tipologia, payload) ==
    LET td == srv_tipData(tipologia, payload)
        orEmpty(v) == IF Falsy(v) THEN JStr(<<>>) ELSE v
    IN  CASE tipologia = "scaldacqua" ->
               LET cls == RemoveWhiteSpace(ToLowerCase(Trim(ToStringJS(orEmpty(td.classe_energetica)))))
               IN  IF StartsWith(cls, <<"a", "+">>) THEN RInt(700)
                   ELSE IF StartsWith(cls, <<"a">>) THEN RInt(500) ELSE RZero
          [] tipologia = "solare_termico" ->
               LET energia == srv_parseNumberLike(td.energia_termica)
                   tipo == ToLowerCase(Trim(ToStringJS(orEmpty(td.tipo_collettori))))
                   k == IF tipo = <<"p", "i", "a", "n", "i">> THEN Rat(7, 10)
                        ELSE IF tipo = <<"f", "a", "c", "t", "o", "r", "y", "_", "m", "a", "d", "e">>
                        THEN Rat(1945, 10000) ELSE RZero
               IN  RMul(energia, k)
          [] tipologia = "pompa_calore" ->
               LET potenza == srv_parseNumberLike(td.potenza_nominale)
                   eff == RDiv(srv_parseNumberLike(td.efficienza_stagionale), RInt(100))
                   scop == srv_parseNumberLike(td.scop_sper_cop)
               IN  RMul(RMul(RMul(potenza, eff), srv_kZona(srv_PDC_K_ZONA, srv_zona(payload))),
                        srv_interpolate(srv_G_PDC_POINTS, JNum(scop)))
          [] tipologia = "sistema_ibrido" ->
               LET potenza == srv_parseNumberLike(td.pdc_potenza)
                   eff == RDiv(srv_parseNumberLike(td.pdc_efficienza), RInt(100))
                   scop == srv_parseNumberLike(td.pdc_scop_sper_cop)
               IN  RMul(RMul(RMul(potenza, eff), srv_kZona(srv_IBRIDO_K_ZONA, srv_zona(payload))),
                        srv_interpolate(srv_G_IBRIDO_POINTS, JNum(scop)))
          [] OTHER -> RZero

\* lines 954-955: limitePercentuale and the gross incentive before rounding
srv_incentivo_lordo(tipologia, payload) ==
    MathMin(srv_incentivo_max(tipologia, payload),
            RMul(srv_percentuale(tipologia), srv_totale_vat(tipologia, payload)))

srv_NettoFactor == Rat(9878, 10000)

srv_computeIncentiveForTipologia(tipologia, payload) ==
    LET percent_reale(tot, lordo) ==
            IF RGt(tot, RZero) THEN RMul(RDiv(lordo, tot), RInt(100)) ELSE RZero
        row(tot, lordo) ==
            IF tipologia \notin srv_Supported
            THEN [totale_vat |-> srv_round2(tot), incentivo_lordo |-> RZero,
                  incentivo_netto |-> RZero, percent_reale |-> <<"0", ".", "0">>,
                  warnings |-> <<"Tipologia '", tipologia, "' non ancora implementata nel backend Arquati.">>]
            ELSE [totale_vat |-> srv_round2(tot), incentivo_lordo |-> srv_round2(lordo),
                  incentivo_netto |-> srv_round2(RMul(lordo, srv_NettoFactor)),
                  percent_reale |-> toFixed1(percent_reale(tot, lordo)),
                  warnings |-> NoText]
    IN  row(srv_totale_vat(tipologia, payload), srv_incentivo_lordo(tipologia, payload))

\* a variant that answers only for the classes it has a rule for
handleApi_DropsUnsupported(body) ==
    LET tipologie == IF body.tipologia.isArray THEN body.tipologia.items ELSE <<>>
    IN  IF Len(tipologie) = 0
        THEN [success |-> FALSE, error |-> <<"Nessuna tipologia di intervento selezionata.">>,
              hasData |-> FALSE, data |-> NoData]
        ELSE [success |-> TRUE, error |-> NoText, hasData |-> TRUE,
              data |-> [tip \in Keys(tipologie) \cap srv_Supported |->
                            srv_computeIncentiveForTipologia(tip, body)]]

\* POST /api/public/calculate with a body that parsed as JSON (lines 1128-1138)
handleApi(body) ==
    LET tipologie == IF body.tipologia.isArray THEN body.tipologia.items ELSE <<>>
    IN  IF Len(tipologie) = 0
        THEN [success |-> FALSE, error |-> <<"Nessuna tipologia di intervento selezionata.">>,
              hasData |-> FALSE, data |-> NoData]
        ELSE [success |-> TRUE, error |-> NoText, hasData |-> TRUE,
              data |-> [tip \in Keys(tipologie) |-> srv_computeIncentiveForTipologia(tip, body)]]

(***************************************************************************)
(* Requests the two hosts are applied to                                   *)
(***************************************************************************)
TipologiaIds == Supported \cup {"caldaia"}

\* every list of at most MaxTipologie identifiers, and some longer ones: two
\* classes, an unsupported class next to a supported one, a repeated class
MaxTipologie == 1
LongerLists ==
    {<<"caldaia", "scaldacqua">>, <<"solare_termico", "scaldacqua">>,
     <<"pompa_calore", "pompa_calore">>, <<"sistema_ibrido", "pompa_calore", "caldaia">>}
TipologiaLists == UNION {[1..n -> TipologiaIds] : n \in 0..MaxTipologie} \cup LongerLists

InvoiceValues ==
    {JUndef, JNum(RZero), JNum(RInt(-200)), JNum(RInt(1000)), JNum(RInt(5000)),
     JStr(<<"1", ".", "2", "3", "4", ",", "5", "6">>), JStr(<<"n", "/", "a">>)}

\* catalog-like technical records; each carries the fields of every class
Model1 ==
    [NoFields EXCEPT !.classe_energetica = JStr(<<"a", "+">>),
                     !.energia_termica = JNum(RInt(1000)),
                     !.tipo_collettori = JStr(<<"p", "i", "a", "n", "i">>),
                     !.potenza_nominale = JNum(RInt(10)),
                     !.efficienza_stagionale = JNum(RInt(150)),
                     !.scop_sper_cop = JNum(Rat(516, 100)),
                     !.pdc_potenza = JNum(RInt(10)),
                     !.pdc_efficienza = JNum(RInt(150)),
                     !.pdc_scop_sper_cop = JNum(Rat(359, 100))]
Model2 ==
    [NoFields EXCEPT !.classe_energetica = JStr(<<" ", "A", " ">>),
                     !.energia_termica = JStr(<<"1", ".", "0", "0", "0", ",", "5">>),
                     !.tipo_collettori = JStr(<<"P", "i", "a", "n", "i", " ">>),
                     !.potenza_nominale = JNum(RInt(-10)),
                     !.efficienza_stagionale = JNum(RInt(100)),
                     !.scop_sper_cop = JStr(<<"5", ",", "1", "6">>),
                     !.pdc_potenza = JNum(RInt(-4)),
                     !.pdc_efficienza = JNum(RInt(100)),
                     !.pdc_scop_sper_cop = JNum(Rat(359, 100))]
Model3 ==
    [NoFields EXCEPT !.classe_energetica = JStr(<<"b">>),
                     !.energia_termica = JNum(RInt(200)),
                     !.tipo_collettori = JStr(<<"f", "a", "c", "t", "o", "r", "y", "_", "m", "a", "d", "e">>),
                     !.potenza_nominale = JNum(RInt(1000)),
                     !.efficienza_stagionale = JNum(RInt(100)),
                     !.scop_sper_cop = JNum(Rat(25, 10)),
                     !.pdc_potenza = JNum(RInt(1000)),
                     !.pdc_efficienza = JNum(RInt(100)),
                     !.pdc_scop_sper_cop = JNum(Rat(25, 10))]
Model4 ==
    [NoFields EXCEPT !.classe_energetica = JStr(<<"A", " ", "+", "+">>),
                     !.energia_termica = JNull,
                     !.potenza_nominale = JNum(RInt(1000)),
                     !.efficienza_stagionale = JStr(<<"1", "0", "0">>),
                     !.scop_sper_cop = JNum(RInt(12)),
                     !.pdc_potenza = JNum(RInt(1000)),
                     !.pdc_efficienza = JNum(RInt(100)),
                     !.pdc_scop_sper_cop = JNum(RInt(1))]
TechRecords == {Model1, Model2, Model3, Model4}
TechValues == {NotAnArray, ArrayOf(<<>>)} \cup {ArrayOf(<<m>>) : m \in TechRecords}

\* a variant with a seventh letter
ZoneLetters_WithZ == {"A", "B", "C", "D", "E", "F", "Z"}
ZoneLetters == {"A", "B", "C", "D", "E", "F"}
ZoneValues ==
    {JUndef, JStr(<<>>), JStr(<<"a">>), JStr(<<" ", "f", " ">>), JStr(<<"Z">>)}
        \cup {JStr(<<z>>) : z \in ZoneLetters}

MakePayload(tip, vat, tech, z) ==
    [tipologia |-> tip,
     value_vat |-> IF vat = JUndef THEN NoData ELSE [c \in TipologiaIds |-> vat],
     dati_tecnici |-> [c \in TipologiaIds |-> tech],
     zona |-> z]

Requests ==
    {MakePayload(tip, vat, tech, z) :
        tip \in {NotAnArray} \cup {ArrayOf(l) : l \in TipologiaLists},
        vat \in InvoiceValues, tech \in TechValues, z \in ZoneValues}

(***************************************************************************)
(* Browser application: tables and pure helpers (app.js lines 1-83,        *)
(* 243-287, 594-624)                                                       *)
(***************************************************************************)
\* INTERVENTIONS; filterModel is named by the predicate it applies
INTERVENTIONS ==
    << [key |-> "sistema_ibrido", label |-> "Sistemi ibridi", tipologia |-> "sistema_ibrido",
        catalogType |-> "sistema-ibrido", needsComune |-> TRUE, filterModel |-> "none"],
       [key |-> "pompa_riscaldamento", label |-> "Pompe di calore", tipologia |-> "pompa_calore",
        catalogType |-> "pompa-calore", needsComune |-> TRUE, filterModel |-> "not_aria_aria"],
       [key |-> "condizionatori", label |-> "Condizionatori", tipologia |-> "pompa_calore",
        catalogType |-> "pompa-calore", needsComune |-> TRUE, filterModel |-> "aria_aria"],
       [key |-> "scaldacqua", label |-> "Scaldacqua", tipologia |-> "scaldacqua",
        catalogType |-> "scaldacqua", needsComune |-> FALSE, filterModel |-> "none"],
       [key |-> "solare_factory", label |-> "Solare termico", tipologia |-> "solare_termico",
        catalogType |-> "solare-termico", needsComune |-> FALSE, filterModel |-> "factory_made"] >>

\* String(v || "")
StringOrEmpty(v) == IF Falsy(v) THEN <<>> ELSE ToStringJS(v)

\* intervention.filterModel(m), `true` for an intervention without a filter
filterModel(iv, m) ==
    CASE iv.filterModel = "not_aria_aria" ->
            StringOrEmpty(m.fields.tipologia_scambio) # <<"a", "r", "i", "a", "_", "a", "r", "i", "a">>
      [] iv.filterModel = "aria_aria" ->
            StringOrEmpty(m.fields.tipologia_scambio) = <<"a", "r", "i", "a", "_", "a", "r", "i", "a">>
      [] iv.filterModel = "factory_made" ->
            StringOrEmpty(m.fields.tipo_collettori) =
                <<"f", "a", "c", "t", "o", "r", "y", "_", "m", "a", "d", "e">>
      [] OTHER -> TRUE

\* la.localeCompare(lb, "it", { sensitivity: "base" }) < 0 on labels made of
\* spaces, digits and unaccented letters: case is ignored, a space sorts
\* before a digit and a digit before a letter, a proper prefix sorts first
CollationOrder == <<" ">> \o Digits \o Lowers
CollationRank(c) == CHOOSE i \in DOMAIN CollationOrder : CollationOrder[i] = ToLowerChar(c)
RECURSIVE LabelBefore(_, _)
LabelBefore(la, lb) ==
    IF lb = <<>> THEN FALSE
    ELSE IF la = <<>> THEN TRUE
    ELSE IF CollationRank(Head(la)) # CollationRank(Head(lb))
    THEN CollationRank(Head(la)) < CollationRank(Head(lb))
    ELSE LabelBefore(Tail(la), Tail(lb))

\* one insertion of the stable sort of lines 468-472
RECURSIVE InsertByLabel(_, _)
InsertByLabel(sorted, m) ==
    IF sorted = <<>> THEN <<m>>
    ELSE IF LabelBefore(m.label, Head(sorted).label) THEN <<m>> \o sorted
    ELSE <<Head(sorted)>> \o InsertByLabel(Tail(sorted), m)
RECURSIVE SortByLabel(_)
SortByLabel(models) ==
    IF models = <<>> THEN <<>>
    ELSE InsertByLabel(SortByLabel(SubSeq(models, 1, Len(models) - 1)), models[Len(models)])

\* lines 466-473: the models loadCatalogFor leaves in state.availableModels
FilteredCatalog(iv, raw) == SortByLabel(SelectSeq(raw, LAMBDA m : filterModel(iv, m)))

\* s.replace(/\s+/g, " ")
RECURSIVE CollapseWhiteSpace(_)
CollapseWhiteSpace(s) ==
    IF s = <<>> THEN <<>>
    ELSE IF Head(s) \in WhiteSpace
    THEN <<" ">> \o CollapseWhiteSpace(TrimLeft(s))
    ELSE <<Head(s)>> \o CollapseWhiteSpace(Tail(s))

\* normalizeForSearch on text without accents and typographic quotes, where
\* normalize("NFD") and the two replacements of lines 78-79 change nothing
normalizeForSearch(input) ==
    LET kept(c) == IsDigit(c) \/ c \in WhiteSpace \/ c = "'" \/ \E i \in DOMAIN Lowers : Lowers[i] = c
        spaced(lower) == [i \in DOMAIN lower |-> IF kept(lower[i]) THEN lower[i] ELSE " "]
    IN  Trim(CollapseWhiteSpace(spaced(ToLowerCase(Trim(input)))))

\* String.prototype.includes with a string argument
IncludesString(s, q) == \E i \in 0..(Len(s) - Len(q)) : SubSeq(s, i + 1, i + Len(q)) = q

\* lines 500-521: the suggestions of updateModelSuggestions for the text of
\* the model input
ModelSuggestionsFor(availableModels, text) ==
    LET first(k, out) == SubSeq(out, 1, IF Len(out) < k THEN Len(out) ELSE k)
        matches(q) ==
            LET named == SelectSeq(availableModels, LAMBDA m : m.label # <<>>)
                found == first(60, SelectSeq(named,
                            LAMBDA m : IncludesString(normalizeForSearch(m.label), q)))
                starts == SelectSeq(found, LAMBDA m : StartsWith(normalizeForSearch(m.label), q))
                contains == SelectSeq(found, LAMBDA m : ~StartsWith(normalizeForSearch(m.label), q))
            IN  IF q = <<>> THEN availableModels ELSE starts \o contains
    IN  first(40, matches(normalizeForSearch(text)))

\* JSON.stringify followed by JSON.parse on a number: its shortest decimal
\* text, read back
JsonNumber(r) == parseFloat(NumberToString(r)).v
JsonScalar(v) == IF v.t = "number" THEN JNum(JsonNumber(v.n)) ELSE v

\* the body of the POST as the server parses it (lines 645, 980); a property
\* whose value is undefined is not sent
JsonPayload(p) ==
    [tipologia |-> p.tipologia,
     value_vat |-> [c \in DOMAIN p.value_vat |-> JsonScalar(p.value_vat[c])],
     dati_tecnici |->
        [c \in DOMAIN p.dati_tecnici |->
            [isArray |-> p.dati_tecnici[c].isArray,
             items |-> [i \in DOMAIN p.dati_tecnici[c].items |->
                           [f \in DOMAIN p.dati_tecnici[c].items[i] |->
                               JsonScalar(p.dati_tecnici[c].items[i][f])]]]],
     zona |-> JsonScalar(p.zona)]

\* the body of the answer as res.json() returns it (line 283)
JsonResponse(r) ==
    [r EXCEPT !.data =
        [c \in DOMAIN r.data |->
            [r.data[c] EXCEPT !.totale_vat = JsonNumber(@),
                              !.incentivo_lordo = JsonNumber(@),
                              !.incentivo_netto = JsonNumber(@)]]]

\* what the network hands to fetchJson for the POST: a rejected fetch, an
\* abort by the 30 s timer, or a response with a status and a body
NoBody == [success |-> FALSE, error |-> <<>>, hasData |-> FALSE, data |-> NoData]
NotFoundBody == [success |-> FALSE, error |-> <<"Not found">>, hasData |-> FALSE, data |-> NoData]
Rejected == [kind |-> "reject", ok |-> FALSE, parses |-> FALSE, body |-> NoBody]
Aborted == [kind |-> "abort", ok |-> FALSE, parses |-> FALSE, body |-> NoBody]
HttpError == [kind |-> "response", ok |-> FALSE, parses |-> TRUE, body |-> NotFoundBody]
NotJson == [kind |-> "response", ok |-> TRUE, parses |-> FALSE, body |-> NoBody]
Answer(body) == [kind |-> "response", ok |-> TRUE, parses |-> TRUE, body |-> body]

\* a variant that does not look at the status of the response
fetchJson_IgnoresStatus(reply) ==
    IF reply.kind # "response" \/ ~reply.parses
    THEN [threw |-> TRUE, value |-> NoBody]
    ELSE [threw |-> FALSE, value |-> reply.body]

\* fetchJson (lines 270-287): throws when fetch rejects or is aborted, when
\* the status is not 2xx, and when the body is not JSON
fetchJson(reply) ==
    IF reply.kind # "response" \/ ~reply.ok \/ ~reply.parses
    THEN [threw |-> TRUE, value |-> NoBody]
    ELSE [threw |-> FALSE, value |-> reply.body]

\* formatPercentLike (lines 248-251)
formatPercentLike(input) ==
    ReplaceFirst(toFixed1(parseNumberLike(input)), ".", ",") \o <<"%">>

FallbackLabel == "Calcolo eseguito in modalità statica (senza API)."

\* a variant that shows the warning of the row and nothing else
warn_WithoutLabel(rowWarnings, usedLocalFallback) == rowWarnings

\* lines 683-685: [row.warnings, label or null].filter(Boolean).join(" ")
warn(rowWarnings, usedLocalFallback) ==
    IF usedLocalFallback
    THEN IF rowWarnings # NoText THEN rowWarnings \o <<" ", FallbackLabel>> ELSE <<FallbackLabel>>
    ELSE rowWarnings

(***************************************************************************)
(* What the network and the user supply to the page                        *)
(***************************************************************************)
AriaAria ==
    [Model1 EXCEPT !.tipologia_scambio = JStr(<<"a", "r", "i", "a", "_", "a", "r", "i", "a">>)]

\* the catalog files, in file order
CatalogData(catalogType) ==
    CASE catalogType = "sistema-ibrido" -> << [label |-> <<"B", "e", "t", "a", " ", "2">>, fields |-> Model1] >>
      [] catalogType = "pompa-calore" ->
            << [label |-> <<"b", "e", "t", "a">>, fields |-> Model1],
               [label |-> <<"A", "l", "f", "a">>, fields |-> AriaAria] >>
      [] catalogType = "scaldacqua" -> << [label |-> <<"b", "e", "t", "a">>, fields |-> Model1] >>
      [] OTHER ->
            << [label |-> <<"b", "e", "t", "a">>, fields |-> Model1],
               [label |-> <<"A", "l", "f", "a">>, fields |-> Model3] >>

\* what a catalog fetch leaves in `arr`: nothing (the fetch failed, or the
\* answer held no array or an empty one) or the catalog
CatalogReplies(catalogType) == {<<>>, CatalogData(catalogType)}

\* city records of the cities data set; the second has no usable zone
Cities ==
    << [comune |-> "Roma", zona_climatica |-> JStr(<<"d">>)],
       [comune |-> "Altrove", zona_climatica |-> JUndef],
       [comune |-> "Ignota", zona_climatica |-> JStr(<<"g">>)] >>
CityReplies == {Cities}

\* the interventions the user clicks, the texts typed in the model and the
\* invoice fields, the values chosen in the zone selector
UserInterventions == {"pompa_riscaldamento", "condizionatori"}
ModelTexts == {<<>>}
InvoiceTexts == {<<>>, <<"1", ".", "0", "0", "0">>}
ZoneChoices == {<<"b">>, <<"z">>, <<>>}

\* calculate() runs that pass validation, catalog loads in flight, clicks
\* and edits of the user
MaxCalcs == 2
MaxLoads == 2
MaxUserEvents == 8

(***************************************************************************)
(* State                                                                   *)
(***************************************************************************)
VARIABLES
    request,              \* the payload the server parses from the POST body
    bodyOk,               \* whether the POST body reaches the server as parseable JSON
    apiResp,              \* what POST /api/public/calculate answered
    localResp,            \* what calculateLocally returned
    net,                  \* the POST: "none", "sent" or "answered"
    activeIntervention,   \* state.activeIntervention
    catalogs,             \* state.catalogs: catalogType -> array
    availableModels,      \* state.availableModels
    selectedModel,        \* state.selectedModel
    selectedCity,         \* state.selectedCity
    zonaClimatica,        \* state.zonaClimatica (and dom.zonaSelect.value)
    loads,                \* the loadCatalogFor calls waiting on a fetch
    modelInput,           \* dom.modelInput.value
    modelSuggestions,     \* dom.modelSuggestions: data-open and the rendered items
    comuneSuggestions,    \* dom.comuneSuggestions: data-open and the rendered items
    invoiceInput,         \* dom.invoiceInput.value
    status,               \* dom.status: dataset.kind and textContent
    resultsHidden,        \* dom.results.hidden
    resultsBody,          \* dom.resultsBody: the rendered rows
    warningsHidden,       \* dom.warnings.hidden
    warningsText,         \* dom.warnings.textContent
    calculateBtnDisabled, \* dom.calculateBtn.disabled
    calc,                 \* the calculate() call: where it waits, and what its last run did
    userEvents,           \* how many clicks and edits the user has made
    curve,                \* interpolate: the argument `points`
    arg,                  \* the argument x of interpolate, input of parseNumberLike
    result                \* what the function applied to them returned

engineVars == <<request, bodyOk, apiResp, localResp, net>>
modelVars == <<selectedModel, modelInput, modelSuggestions>>
comuneVars == <<selectedCity, comuneSuggestions>>
resultVars == <<resultsHidden, resultsBody, warningsHidden, warningsText>>
catalogVars == <<catalogs, availableModels, loads>>
pageVars ==
    <<activeIntervention, catalogVars, modelVars, comuneVars, zonaClimatica, invoiceInput,
      status, resultVars, calculateBtnDisabled, calc, userEvents>>
fnVars == <<curve, arg, result>>
vars == <<engineVars, pageVars, fnVars>>

\* no response yet
Pending == [success |-> FALSE, error |-> <<"pending">>, hasData |-> FALSE, data |-> NoData]

NoModel == [null |-> TRUE]
NoCity == [null |-> TRUE]
NoStatus == [kind |-> "none", msg |-> NoText]
NoRequest == MakePayload(NotAnArray, JUndef, NotAnArray, JUndef)
\* no function has been applied
NoResult == [fn |-> "none"]
FunctionsIdle == curve = <<>> /\ arg = JUndef /\ result = NoResult

NoCalc ==
    [pc |-> "idle", iv |-> [key |-> "none"], payload |-> NoRequest, runs |-> 0,
     reply |-> [kind |-> "none", ok |-> FALSE, parses |-> FALSE],
     usedLocalFallback |-> FALSE, localArgs |-> <<>>, events |-> <<>>]

\* the page once DOMContentLoaded has run: setActiveIntervention(INTERVENTIONS[0])
\* has started the first catalog load (lines 725-727)
PageLoaded ==
    /\ activeIntervention = INTERVENTIONS[1]
    /\ catalogs = NoData
    /\ availableModels = <<>>
    /\ loads = << [iv |-> INTERVENTIONS[1], pc |-> "api"] >>
    /\ selectedModel = NoModel
    /\ modelInput = <<>>
    /\ modelSuggestions = [open |-> FALSE, items |-> <<>>]
    /\ selectedCity = NoCity
    /\ comuneSuggestions = [open |-> FALSE, items |-> <<>>]
    /\ zonaClimatica = <<"E">>
    /\ invoiceInput = <<>>
    /\ status = [kind |-> "none", msg |-> <<"Caricamento modelli...">>]
    /\ resultsHidden = TRUE
    /\ resultsBody = <<>>
    /\ warningsHidden = TRUE
    /\ warningsText = NoText
    /\ calculateBtnDisabled = FALSE
    /\ calc = NoCalc
    /\ userEvents = 0

EngineInit ==
    /\ \/ bodyOk = TRUE /\ request \in Requests
       \/ bodyOk = FALSE /\ request = NoRequest
    /\ apiResp = Pending
    /\ localResp = Pending
    /\ net = "sent"
    /\ PageLoaded
    /\ FunctionsIdle

\* handleApi, POST /api/public/calculate (lines 1120-1139)
ApiCalculate ==
    /\ net = "sent"
    /\ net' = "answered"
    /\ apiResp' = IF bodyOk THEN handleApi(request)
                  ELSE [success |-> FALSE, error |-> <<"JSON non valido">>,
                        hasData |-> FALSE, data |-> NoData]
    /\ UNCHANGED <<request, bodyOk, localResp, pageVars, fnVars>>

\* calculateLocally applied to the same payload
LocalCalculate ==
    /\ bodyOk
    /\ localResp = Pending
    /\ localResp' = calculateLocally(request)
    /\ UNCHANGED <<request, bodyOk, apiResp, net, pageVars, fnVars>>

EngineNext == ApiCalculate \/ LocalCalculate

SpecEngine == EngineInit /\ [][EngineNext]_vars

(***************************************************************************)
(* The pure functions applied to their inputs                              *)
(***************************************************************************)
MaxTextLen == 4
TextChars == {"1", ",", ".", "-", " ", "x"}

RECURSIVE TextsOfLen(_)
TextsOfLen(n) ==
    IF n = 0 THEN {<<>>} ELSE {<<c>> \o t : c \in TextChars, t \in TextsOfLen(n - 1)}
Texts == UNION {TextsOfLen(n) : n \in 0..MaxTextLen}

\* a curve that is no constant of the program: three points
OtherCurve ==
    << <<Rat(0, 1), Rat(3, 100)>>, <<Rat(1, 1), Rat(29, 100)>>, <<Rat(2, 1), Rat(1, 1)>> >>
OnePointCurve == << <<Rat(3, 1), Rat(7, 10)>> >>
Curves == {<<>>, G_PDC_POINTS, G_IBRIDO_POINTS, OtherCurve, OnePointCurve}

\* the abscissas of a curve, the middle of each segment, and one value
\* on either side
ProbesOf(points) ==
    {points[i][1] : i \in DOMAIN points}
        \cup {RDiv(RAdd(points[i][1], points[i + 1][1]), RInt(2)) : i \in 1..(Len(points) - 1)}
        \cup {RSub(points[i][1], RInt(1)) : i \in DOMAIN points \cap {1}}
        \cup {RAdd(points[i][1], RInt(1)) : i \in DOMAIN points \cap {Len(points)}}
Probes == UNION {ProbesOf(points) : points \in Curves}

NumberInputs == {JNum(r) : r \in Probes} \cup {JNaN, JInfinity, JMinusInfinity}
TextInputs == {JStr(t) : t \in Texts}

FunctionsInit ==
    /\ \/ curve \in Curves /\ arg \in NumberInputs \cup {JNull, JUndef, JStr(<<"3", ",", "5">>)}
       \/ curve = <<>> /\ arg \in TextInputs
    /\ result = NoResult
    /\ request = NoRequest
    /\ bodyOk = FALSE
    /\ apiResp = Pending
    /\ localResp = Pending
    /\ net = "none"
    /\ PageLoaded

\* interpolate(curve, arg) in the browser (lines 111-126): `exact` is the
\* value of the expressions in the rationals, `number` the Number returned
ApplyInterpolate ==
    /\ result = NoResult
    /\ result' = [fn |-> "interpolate", exact |-> interpolate(curve, arg),
                  number |-> interpolate64(curve, arg)]
    /\ UNCHANGED <<curve, arg, engineVars, pageVars>>

\* interpolate(curve, arg) on the server (lines 841-856)
ApplySrvInterpolate ==
    /\ result = NoResult
    /\ result' = [fn |-> "srv_interpolate", exact |-> srv_interpolate(curve, arg)]
    /\ UNCHANGED <<curve, arg, engineVars, pageVars>>

\* parseNumberLike(arg) in the browser (lines 85-101)
ApplyParseNumberLike ==
    /\ result = NoResult
    /\ result' = [fn |-> "parseNumberLike", exact |-> parseNumberLike(arg)]
    /\ UNCHANGED <<curve, arg, engineVars, pageVars>>

\* parseNumberLike(arg) on the server (lines 815-831)
ApplySrvParseNumberLike ==
    /\ result = NoResult
    /\ result' = [fn |-> "srv_parseNumberLike", exact |-> srv_parseNumberLike(arg)]
    /\ UNCHANGED <<curve, arg, engineVars, pageVars>>

FunctionsNext ==
    \/ ApplyInterpolate
    \/ ApplySrvInterpolate
    \/ ApplyParseNumberLike
    \/ ApplySrvParseNumberLike

SpecFunctions == FunctionsInit /\ [][FunctionsNext]_vars

(***************************************************************************)
(* The page (app.js lines 314-769)                                         *)
(***************************************************************************)
Intervention(key) == INTERVENTIONS[CHOOSE i \in DOMAIN INTERVENTIONS : INTERVENTIONS[i].key = key]

Closed(suggestions) == [suggestions EXCEPT !.open = FALSE]

\* one more click or edit of the user
UserEvent == userEvents < MaxUserEvents /\ userEvents' = userEvents + 1

\* validateBeforeCalculate (lines 614-624): the message, NoText for null
validateBeforeCalculate ==
    IF selectedModel = NoModel THEN <<"Seleziona un modello.">>
    ELSE IF parseNumberLike(JStr(invoiceInput))[1] <= 0
    THEN <<"Inserisci un importo fattura valido.">>
    ELSE IF activeIntervention.needsComune /\ selectedCity = NoCity
    THEN <<"Seleziona un comune dalla lista.">>
    ELSE NoText

\* buildPayload (lines 594-612)
buildPayload ==
    LET tipologia == activeIntervention.tipologia
    IN  [tipologia |-> ArrayOf(<<tipologia>>),
         value_vat |-> (tipologia :> JNum(parseNumberLike(JStr(invoiceInput)))),
         dati_tecnici |->
            (tipologia :> IF selectedModel # NoModel THEN ArrayOf(<<selectedModel.fields>>)
                          ELSE ArrayOf(<<>>)),
         zona |-> IF activeIntervention.needsComune THEN JStr(zonaClimatica) ELSE JUndef]

\* setActiveIntervention (lines 416-434) with the part of loadCatalogFor
\* that runs before its first await; the click also reaches
\* closeAllSuggestionsIfClickedOutside
SetActiveIntervention ==
    /\ UserEvent
    /\ \E key \in UserInterventions :
      LET next == Intervention(key)
          cached == next.catalogType \in DOMAIN catalogs
      IN  /\ cached \/ Len(loads) < MaxLoads
          /\ activeIntervention' = next
          /\ selectedModel' = NoModel
          /\ modelInput' = <<>>
          /\ modelSuggestions' = Closed(modelSuggestions)
          /\ resultsHidden' = TRUE
          /\ warningsHidden' = TRUE
          /\ warningsText' = NoText
          /\ selectedCity' = IF next.needsComune THEN selectedCity ELSE NoCity
          /\ comuneSuggestions' = Closed(comuneSuggestions)
          /\ IF cached
             THEN /\ status' = NoStatus
                  /\ availableModels' = FilteredCatalog(next, catalogs[next.catalogType])
                  /\ UNCHANGED loads
             ELSE /\ status' = [kind |-> "none", msg |-> <<"Caricamento modelli...">>]
                  /\ loads' = Append(loads, [iv |-> next, pc |-> "api"])
                  /\ UNCHANGED availableModels
          /\ UNCHANGED <<fnVars, engineVars, catalogs, zonaClimatica, invoiceInput, resultsBody, calculateBtnDisabled, calc>>

\* lines 462-473 of loadCatalogFor, for the load at position i whose fetches
\* left arr
LoadCatalogEnds(i, arr) ==
    /\ catalogs' = (loads[i].iv.catalogType :> arr) @@ catalogs
    /\ status' = IF arr # <<>> THEN NoStatus
                 ELSE [kind |-> "error", msg |-> <<"Nessun modello disponibile.">>]
    /\ availableModels' = FilteredCatalog(loads[i].iv, arr)
    /\ loads' = SubSeq(loads, 1, i - 1) \o SubSeq(loads, i + 1, Len(loads))

\* lines 442-449: the fetch of the catalog from the API settles
LoadCatalogApiSettles ==
    \E i \in DOMAIN loads :
      /\ loads[i].pc = "api"
      /\ \E arr \in CatalogReplies(loads[i].iv.catalogType) :
            IF arr # <<>>
            THEN LoadCatalogEnds(i, arr)
            ELSE /\ loads' = [loads EXCEPT ![i].pc = "static"]
                 /\ UNCHANGED <<catalogs, availableModels, status>>
      /\ UNCHANGED <<fnVars, engineVars, activeIntervention, modelVars, comuneVars, zonaClimatica,
                     invoiceInput, resultVars, calculateBtnDisabled, calc, userEvents>>

\* lines 451-460: the fetch of the static catalog file settles
LoadCatalogStaticSettles ==
    \E i \in DOMAIN loads :
      /\ loads[i].pc = "static"
      /\ \E arr \in CatalogReplies(loads[i].iv.catalogType) : LoadCatalogEnds(i, arr)
      /\ UNCHANGED <<fnVars, engineVars, activeIntervention, modelVars, comuneVars, zonaClimatica,
                     invoiceInput, resultVars, calculateBtnDisabled, calc, userEvents>>

\* the input handler of the model input (lines 729-734)
ModelInputEdited ==
    /\ UserEvent
    /\ \E text \in ModelTexts :
      /\ text # modelInput
      /\ modelInput' = text
      /\ selectedModel' = NoModel
      /\ UNCHANGED <<fnVars, engineVars, activeIntervention, catalogVars, modelSuggestions, comuneVars,
                     zonaClimatica, invoiceInput, status, resultVars,
                     calculateBtnDisabled, calc>>

\* updateModelSuggestions (lines 499-535) with renderSuggestions (lines
\* 384-414): the timer set by a focus or input event of the model field, or
\* by the end of a catalog load (lines 475-477), fires
UpdateModelSuggestions ==
    /\ UserEvent
    /\ modelSuggestions' =
          IF availableModels = <<>> THEN Closed(modelSuggestions)
          ELSE LET rendered(out) == [open |-> out # <<>>, items |-> out]
               IN  rendered(ModelSuggestionsFor(availableModels, modelInput))
    /\ UNCHANGED <<fnVars, engineVars, activeIntervention, catalogVars, selectedModel, modelInput,
                   comuneVars, zonaClimatica, invoiceInput, status, resultVars,
                   calculateBtnDisabled, calc>>

\* a click on a rendered model suggestion (lines 528-533)
PickModel ==
    /\ UserEvent
    /\ modelSuggestions.open
    /\ \E i \in DOMAIN modelSuggestions.items :
          /\ selectedModel' = modelSuggestions.items[i]
          /\ modelInput' = modelSuggestions.items[i].label
    /\ modelSuggestions' = Closed(modelSuggestions)
    /\ comuneSuggestions' = Closed(comuneSuggestions)
    /\ UNCHANGED <<fnVars, engineVars, activeIntervention, catalogVars, selectedCity, zonaClimatica,
                   invoiceInput, status, resultVars,
                   calculateBtnDisabled, calc>>

\* a click on clearModelBtn: clearModelSelection (lines 335-340)
ClearModel ==
    /\ UserEvent
    /\ selectedModel' = NoModel
    /\ modelInput' = <<>>
    /\ modelSuggestions' = Closed(modelSuggestions)
    /\ comuneSuggestions' = Closed(comuneSuggestions)
    /\ UNCHANGED <<fnVars, engineVars, activeIntervention, catalogVars, selectedCity, zonaClimatica,
                   invoiceInput, status, resultVars,
                   calculateBtnDisabled, calc>>

\* the input handler of the comune field (lines 750-754); the field is
\* hidden for an intervention that needs no comune
ComuneInputEdited ==
    /\ UserEvent
    /\ activeIntervention.needsComune
    /\ selectedCity' = NoCity
    /\ UNCHANGED <<fnVars, engineVars, activeIntervention, catalogVars, modelVars, comuneSuggestions,
                   zonaClimatica, invoiceInput, status, resultVars,
                   calculateBtnDisabled, calc>>

\* updateComuneSuggestions (lines 537-592), started by a focus or input
\* event of the comune field, once its fetches have settled: the list is
\* rendered, or the static fetch failed and the list is closed
UpdateComuneSuggestions ==
    /\ UserEvent
    /\ \/ \E arr \in CityReplies : comuneSuggestions' = [open |-> arr # <<>>, items |-> arr]
       \/ comuneSuggestions' = Closed(comuneSuggestions)
    /\ UNCHANGED <<fnVars, engineVars, activeIntervention, catalogVars, modelVars, selectedCity,
                   zonaClimatica, invoiceInput, status, resultVars,
                   calculateBtnDisabled, calc>>

\* a click on a rendered city suggestion (lines 576-586)
PickCity ==
    /\ UserEvent
    /\ activeIntervention.needsComune
    /\ comuneSuggestions.open
    /\ \E i \in DOMAIN comuneSuggestions.items :
          LET c == comuneSuggestions.items[i]
              z == ToUpperCase(StringOrEmpty(c.zona_climatica))
          IN  /\ selectedCity' = c
              /\ zonaClimatica' = IF z \in {<<l>> : l \in ZoneLetters} THEN z ELSE zonaClimatica
    /\ comuneSuggestions' = Closed(comuneSuggestions)
    /\ modelSuggestions' = Closed(modelSuggestions)
    /\ UNCHANGED <<fnVars, engineVars, activeIntervention, catalogVars, selectedModel, modelInput,
                   invoiceInput, status, resultVars,
                   calculateBtnDisabled, calc>>

\* a click on clearComuneBtn: clearComuneSelection (lines 342-348)
ClearComune ==
    /\ UserEvent
    /\ activeIntervention.needsComune
    /\ selectedCity' = NoCity
    /\ comuneSuggestions' = Closed(comuneSuggestions)
    /\ modelSuggestions' = Closed(modelSuggestions)
    /\ UNCHANGED <<fnVars, engineVars, activeIntervention, catalogVars, selectedModel, modelInput,
                   zonaClimatica, invoiceInput, status, resultVars,
                   calculateBtnDisabled, calc>>

\* the change handler of the zone selector (lines 759-763)
ZonaSelectChange ==
    /\ UserEvent
    /\ \E value \in ZoneChoices :
      LET v == ToUpperCase(IF value = <<>> THEN <<"E">> ELSE value)
      IN  /\ zonaClimatica' = IF v \in {<<l>> : l \in ZoneLetters} THEN v ELSE <<"E">>
          /\ UNCHANGED <<fnVars, engineVars, activeIntervention, catalogVars, modelVars, comuneVars,
                         invoiceInput, status, resultVars,
                         calculateBtnDisabled, calc>>

\* the user types the invoice amount
InvoiceTyped ==
    /\ UserEvent
    /\ \E text \in InvoiceTexts :
      /\ text # invoiceInput
      /\ invoiceInput' = text
      /\ UNCHANGED <<fnVars, engineVars, activeIntervention, catalogVars, modelVars, comuneVars,
                     zonaClimatica, status, resultVars,
                     calculateBtnDisabled, calc>>

\* a click on resetBtn: resetAll (lines 701-711)
ResetAll ==
    /\ UserEvent
    /\ selectedModel' = NoModel
    /\ modelInput' = <<>>
    /\ modelSuggestions' = Closed(modelSuggestions)
    /\ selectedCity' = NoCity
    /\ comuneSuggestions' = Closed(comuneSuggestions)
    /\ invoiceInput' = <<>>
    /\ zonaClimatica' = <<"E">>
    /\ resultsHidden' = TRUE
    /\ warningsHidden' = TRUE
    /\ warningsText' = NoText
    /\ status' = NoStatus
    /\ UNCHANGED <<fnVars, engineVars, activeIntervention, catalogVars, resultsBody, calculateBtnDisabled, calc>>

\* a click on calculateBtn: calculate() up to its await (lines 626-646); the
\* body of the POST reaches the server as sent, or damaged
CalcClick ==
    /\ UserEvent
    /\ ~calculateBtnDisabled
    /\ modelSuggestions' = Closed(modelSuggestions)
    /\ comuneSuggestions' = Closed(comuneSuggestions)
    /\ IF validateBeforeCalculate # NoText
       THEN /\ status' = [kind |-> "error", msg |-> validateBeforeCalculate]
            /\ UNCHANGED <<fnVars, engineVars, calculateBtnDisabled, calc>>
       ELSE /\ calc.runs < MaxCalcs
            /\ status' = [kind |-> "none", msg |-> <<"Calcolo in corso...">>]
            /\ calculateBtnDisabled' = TRUE
            /\ calc' = [NoCalc EXCEPT !.pc = "fetch", !.iv = activeIntervention,
                                       !.payload = buildPayload, !.runs = calc.runs + 1]
            /\ request' = JsonPayload(buildPayload)
            /\ bodyOk' \in BOOLEAN
            /\ apiResp' = Pending
            /\ localResp' = Pending
            /\ net' = "sent"
    /\ UNCHANGED <<fnVars, activeIntervention, catalogVars, selectedModel, modelInput, selectedCity,
                   zonaClimatica, invoiceInput, resultVars>>

\* the answers the POST can get
Replies ==
    {Rejected, Aborted, HttpError, NotJson}
        \cup IF net = "answered" THEN {Answer(JsonResponse(apiResp))} ELSE {}

\* the row of the results table (lines 661-667); the money cells hold the
\* number handed to formatCurrency
Cells(row) ==
    [label |-> activeIntervention.label,
     totale_vat |-> parseNumberLike(JNum(row.totale_vat)),
     incentivo_lordo |-> parseNumberLike(JNum(row.incentivo_lordo)),
     incentivo_netto |-> parseNumberLike(JNum(row.incentivo_netto)),
     percent_reale |-> formatPercentLike(JStr(row.percent_reale))]

\* a variant that empties the table before it looks at the response
CalcEnds_ClearsTable(resp, usedLocalFallback, run) ==
    LET tipologia == activeIntervention.tipologia
        fail(message) ==
            /\ status' = [kind |-> "error", msg |-> <<"Errore: ">> \o message]
            /\ calc' = [run EXCEPT !.pc = "idle", !.events = @ \o <<"error">>]
            /\ resultsBody' = <<>>
            /\ UNCHANGED <<resultsHidden, warningsHidden, warningsText>>
        show(row) ==
            /\ resultsBody' = <<Cells(row)>>
            /\ resultsHidden' = FALSE
            /\ warningsText' = warn(row.warnings, usedLocalFallback)
            /\ warningsHidden' = ~(row.warnings # NoText \/ usedLocalFallback)
            /\ status' = NoStatus
            /\ calc' = [run EXCEPT !.pc = "idle", !.events = @ \o <<"render">>]
    IN  /\ IF ~resp.success
           THEN fail(IF resp.error # NoText THEN resp.error ELSE <<"Calcolo non riuscito">>)
           ELSE IF ~(resp.hasData /\ tipologia \in DOMAIN resp.data)
           THEN fail(<<"Risposta incompleta dal server.">>)
           ELSE show(resp.data[tipologia])
        /\ calculateBtnDisabled' = FALSE

\* a variant without the finally clause
CalcEnds_WithoutFinally(resp, usedLocalFallback, run) ==
    LET tipologia == activeIntervention.tipologia
        fail(message) ==
            /\ status' = [kind |-> "error", msg |-> <<"Errore: ">> \o message]
            /\ calc' = [run EXCEPT !.pc = "idle", !.events = @ \o <<"error">>]
            /\ UNCHANGED resultVars
        show(row) ==
            /\ resultsBody' = <<Cells(row)>>
            /\ resultsHidden' = FALSE
            /\ warningsText' = warn(row.warnings, usedLocalFallback)
            /\ warningsHidden' = ~(row.warnings # NoText \/ usedLocalFallback)
            /\ status' = NoStatus
            /\ calc' = [run EXCEPT !.pc = "idle", !.events = @ \o <<"render">>]
    IN  /\ IF ~resp.success
           THEN fail(IF resp.error # NoText THEN resp.error ELSE <<"Calcolo non riuscito">>)
           ELSE IF ~(resp.hasData /\ tipologia \in DOMAIN resp.data)
           THEN fail(<<"Risposta incompleta dal server.">>)
           ELSE show(resp.data[tipologia])
        /\ calculateBtnDisabled' = calculateBtnDisabled

\* lines 652-698 of calculate() for the response it holds; `run` is what
\* the call has done so far
CalcEnds(resp, usedLocalFallback, run) ==
    LET tipologia == activeIntervention.tipologia
        fail(message) ==
            /\ status' = [kind |-> "error", msg |-> <<"Errore: ">> \o message]
            /\ calc' = [run EXCEPT !.pc = "idle", !.events = @ \o <<"error">>]
            /\ UNCHANGED resultVars
        show(row) ==
            /\ resultsBody' = <<Cells(row)>>
            /\ resultsHidden' = FALSE
            /\ warningsText' = warn(row.warnings, usedLocalFallback)
            /\ warningsHidden' = ~(row.warnings # NoText \/ usedLocalFallback)
            /\ status' = NoStatus
            /\ calc' = [run EXCEPT !.pc = "idle", !.events = @ \o <<"render">>]
    IN  /\ IF ~resp.success
           THEN fail(IF resp.error # NoText THEN resp.error ELSE <<"Calcolo non riuscito">>)
           ELSE IF ~(resp.hasData /\ tipologia \in DOMAIN resp.data)
           THEN fail(<<"Risposta incompleta dal server.">>)
           ELSE show(resp.data[tipologia])
        /\ calculateBtnDisabled' = FALSE

\* the POST settles and calculate() runs to its end (lines 641-698)
CalcSettle ==
    /\ calc.pc = "fetch"
    /\ \E reply \in Replies :
          LET resumed(r) ==
                  /\ localResp' = IF r.threw THEN calculateLocally(calc.payload) ELSE localResp
                  /\ CalcEnds(IF r.threw THEN localResp' ELSE r.value, r.threw,
                              [calc EXCEPT
                                  !.reply = [kind |-> reply.kind, ok |-> reply.ok,
                                             parses |-> reply.parses],
                                  !.usedLocalFallback = r.threw,
                                  !.localArgs = IF r.threw THEN <<calc.payload>> ELSE <<>>,
                                  !.events = IF r.threw THEN <<"fetchJson", "calculateLocally">>
                                             ELSE <<"fetchJson">>])
          IN  resumed(fetchJson(reply))
    /\ net' = "none"
    /\ UNCHANGED <<fnVars, request, bodyOk, apiResp, activeIntervention, catalogVars, modelVars,
                   comuneVars, zonaClimatica, invoiceInput, userEvents>>

\* a click on the page outside the two suggestion lists and their fields:
\* closeAllSuggestionsIfClickedOutside (lines 713-723)
ClickOutside ==
    /\ UserEvent
    /\ modelSuggestions' = Closed(modelSuggestions)
    /\ comuneSuggestions' = Closed(comuneSuggestions)
    /\ UNCHANGED <<fnVars, engineVars, activeIntervention, catalogVars, selectedModel, modelInput,
                   selectedCity, zonaClimatica, invoiceInput, status,
                   resultVars, calculateBtnDisabled, calc>>

Next ==
    \/ SetActiveIntervention
    \/ LoadCatalogApiSettles
    \/ LoadCatalogStaticSettles
    \/ ModelInputEdited
    \/ UpdateModelSuggestions
    \/ PickModel
    \/ ClearModel
    \/ ComuneInputEdited
    \/ UpdateComuneSuggestions
    \/ PickCity
    \/ ClearComune
    \/ ZonaSelectChange
    \/ InvoiceTyped
    \/ ResetAll
    \/ CalcClick
    \/ ApiCalculate
    \/ CalcSettle
    \/ ClickOutside

Init ==
    /\ request = NoRequest
    /\ bodyOk = TRUE
    /\ apiResp = Pending
    /\ localResp = Pending
    /\ net = "none"
    /\ PageLoaded
    /\ FunctionsIdle

Spec == Init /\ [][Next]_vars

\* fetchJson aborts its request after 30 s (lines 271-272), so the await of
\* calculate() always settles: weak fairness of CalcSettle, which is enabled
\* exactly while calc.pc = "fetch" (Replies is never empty and the rest of
\* the action assigns), with that condition written out for ENABLED
CalcSettleIsFair == []<>(calc.pc # "fetch") \/ []<><<CalcSettle>>_vars
SpecLive == Spec /\ CalcSettleIsFair

(***************************************************************************)
(* Properties of the engine, checked under SpecEngine                      *)
(***************************************************************************)
Requested == IF request.tipologia.isArray THEN request.tipologia.items ELSE <<>>
InList(tip) == tip \in Keys(Requested)
BothAnswered == bodyOk /\ apiResp # Pending /\ localResp # Pending

\* C1: for every request payload the primary host (handleApi with the server
\* copy of computeIncentiveForTipologia) and the offline fallback
\* (calculateLocally with the browser copy) return the same response: the
\* same success flag and error string and, for every requested class, the
\* same totale_vat, incentivo_lordo, incentivo_netto, percent_reale and
\* warnings text, unsupported class identifiers included.
C1_HostsReturnSameResponse == BothAnswered => apiResp = localResp

\* C4: on both hosts a request whose list of appliance classes is empty or
\* absent yields success = false with a non-empty error string and no data
\* mapping; no class is computed.
C4_Failed(resp) ==
    /\ resp.success = FALSE
    /\ resp.error # NoText /\ \A i \in DOMAIN resp.error : resp.error[i] # ""
    /\ resp.hasData = FALSE
    /\ DOMAIN resp.data = {}
C4_EmptyListFails ==
    (bodyOk /\ Len(Requested) = 0) =>
        /\ apiResp # Pending => C4_Failed(apiResp)
        /\ localResp # Pending => C4_Failed(localResp)
C4_Witness ==
    /\ BothAnswered
    /\ request.tipologia = ArrayOf(<<>>)
    /\ request.value_vat # NoData
    /\ ~apiResp.success /\ ~localResp.success

\* C5: for every request with a non-empty list of appliance classes the
\* response has success = true and its data mapping has an entry for every
\* class identifier of the list; an identifier outside the four supported
\* classes is never dropped and its entry is the zero row (incentivo_lordo 0,
\* incentivo_netto 0, percent_reale "0.0") with a warning that names it.
C5_Complete(resp) ==
    /\ resp.success = TRUE
    /\ resp.hasData
    /\ \A i \in DOMAIN Requested :
          LET tip == Requested[i] IN
          /\ tip \in DOMAIN resp.data
          /\ tip \notin {"scaldacqua", "solare_termico", "pompa_calore", "sistema_ibrido"} =>
                /\ resp.data[tip].incentivo_lordo = RZero
                /\ resp.data[tip].incentivo_netto = RZero
                /\ resp.data[tip].percent_reale = <<"0", ".", "0">>
                /\ \E k \in DOMAIN resp.data[tip].warnings : resp.data[tip].warnings[k] = tip
C5_EveryRequestedClassAnswered ==
    (bodyOk /\ Len(Requested) > 0) =>
        /\ apiResp # Pending => C5_Complete(apiResp)
        /\ localResp # Pending => C5_Complete(localResp)
C5_Witness ==
    /\ BothAnswered
    /\ Requested = <<"caldaia", "scaldacqua">>
    /\ "caldaia" \in DOMAIN apiResp.data /\ "caldaia" \in DOMAIN localResp.data
    /\ localResp.data["caldaia"].warnings # NoText

\* the raw inputs of one class in the request
RawInvoice(tip) == GetScalar(request.value_vat, tip)
RawTech(tip) == GetArray(request.dati_tecnici, tip)
Answered(resp) == bodyOk /\ resp # Pending /\ resp.success

\* C6: for each of the four supported classes the gross incentive before
\* rounding is min(cap, p * totale), with totale the coerced invoice amount
\* of the class (0 when missing), p = 0.40 for scaldacqua and 0.65 for the
\* other three, cap the cap formula of the class; it is never above
\* p * totale and not clamped at zero: a negative cap or a negative invoice
\* gives a negative incentive.
C6_P(tip) == IF tip = "scaldacqua" THEN Rat(40, 100) ELSE Rat(65, 100)
C6_Min(cap, tip) ==
    LET totale == IF RawInvoice(tip) = JUndef THEN RZero ELSE parseNumberLike(RawInvoice(tip))
        limit == RMul(C6_P(tip), totale)
    IN  IF RLt(limit, cap) THEN limit ELSE cap
C6_Holds(tip, gross, cap, resp) ==
    LET totale == IF RawInvoice(tip) = JUndef THEN RZero ELSE parseNumberLike(RawInvoice(tip))
    IN  /\ gross = C6_Min(cap, tip)
        /\ RLe(gross, RMul(C6_P(tip), totale))
        /\ (RLt(cap, RZero) \/ RLt(totale, RZero)) => RLt(gross, RZero)
        /\ Answered(resp) => resp.data[tip].incentivo_lordo = Rat(MathRound(RMul(gross, RInt(100))), 100)
C6_GrossIsMinOfCapAndShare ==
    \A tip \in {"scaldacqua", "solare_termico", "pompa_calore", "sistema_ibrido"} :
        (InList(tip) /\ BothAnswered) =>
            /\ C6_Holds(tip, incentivo_lordo(tip, request), incentivo_max(tip, request), localResp)
            /\ C6_Holds(tip, srv_incentivo_lordo(tip, request), srv_incentivo_max(tip, request), apiResp)
C6_Witness ==
    /\ BothAnswered
    /\ Requested = <<"pompa_calore", "pompa_calore">>
    /\ RawTech("pompa_calore") = ArrayOf(<<Model2>>)
    /\ RawInvoice("pompa_calore") = JNum(RInt(1000))
    /\ localResp.data["pompa_calore"].incentivo_lordo = Rat(-32893, 10)
    /\ apiResp.data["pompa_calore"].incentivo_lordo = Rat(-32893, 10)

\* the request of C7: heat pump, zone E, nominal power 10, seasonal
\* efficiency 150, SCOP 5.16, invoice 5000
C7_Request ==
    /\ InList("pompa_calore")
    /\ request.zona = JStr(<<"E">>)
    /\ RawTech("pompa_calore") = ArrayOf(<<Model1>>)
    /\ RawInvoice("pompa_calore") = JNum(RInt(5000))
C7_Row(resp, netto) ==
    /\ resp.data["pompa_calore"].incentivo_lordo = Rat(325000, 100)
    /\ resp.data["pompa_calore"].incentivo_netto = netto

\* C7 as stated: for that request the cap is 4933.95, the gross incentive
\* is min(4933.95, 3250) = 3250.00 and the net incentive is 3209.35.
C7_Original ==
    (C7_Request /\ BothAnswered) =>
        /\ incentivo_max("pompa_calore", request) = Rat(493395, 100)
        /\ C7_Row(localResp, Rat(320935, 100))
        /\ C7_Row(apiResp, Rat(320935, 100))

\* C7 amended: for that request the cap is 4933.95, the gross incentive is
\* 3250.00 and the net incentive, gross * 0.9878 rounded to 2 decimals, is
\* 3210.35.
C7_HeatPumpExample ==
    (C7_Request /\ BothAnswered) =>
        /\ incentivo_max("pompa_calore", request) = Rat(493395, 100)
        /\ srv_incentivo_max("pompa_calore", request) = Rat(493395, 100)
        /\ C7_Row(localResp, Rat(321035, 100))
        /\ C7_Row(apiResp, Rat(321035, 100))
C7_Witness == C7_Request /\ BothAnswered /\ Requested = <<"pompa_calore">>

\* C8: the water-heater cap is 700 when the energy class, trimmed,
\* lowercased and with white space removed, starts with "a+", 500 when it
\* starts with "a" but not "a+", 0 otherwise (a missing technical record
\* included); so invoice 1000 with class "a+" gives gross 400.00, net 395.12,
\* percent "40.0", and invoice 1000 with class "b" gives 0.00, 0.00, "0.0".
C8_Class ==
    LET a == RawTech("scaldacqua")
        v == IF a.isArray /\ a.items # <<>> THEN a.items[1].classe_energetica ELSE JUndef
    IN  IF v.t = "string" THEN RemoveWhiteSpace(ToLowerCase(Trim(v.s))) ELSE <<>>
C8_Cap ==
    IF Len(C8_Class) >= 2 /\ C8_Class[1] = "a" /\ C8_Class[2] = "+" THEN RInt(700)
    ELSE IF Len(C8_Class) >= 1 /\ C8_Class[1] = "a" THEN RInt(500)
    ELSE RZero
C8_Example(resp) ==
    RawInvoice("scaldacqua") = JNum(RInt(1000)) =>
        /\ RawTech("scaldacqua") = ArrayOf(<<Model1>>) =>
              /\ resp.data["scaldacqua"].incentivo_lordo = RInt(400)
              /\ resp.data["scaldacqua"].incentivo_netto = Rat(39512, 100)
              /\ resp.data["scaldacqua"].percent_reale = <<"4", "0", ".", "0">>
        /\ RawTech("scaldacqua") = ArrayOf(<<Model3>>) =>
              /\ resp.data["scaldacqua"].incentivo_lordo = RZero
              /\ resp.data["scaldacqua"].incentivo_netto = RZero
              /\ resp.data["scaldacqua"].percent_reale = <<"0", ".", "0">>
C8_WaterHeaterCap ==
    (InList("scaldacqua") /\ BothAnswered) =>
        /\ incentivo_max("scaldacqua", request) = C8_Cap
        /\ srv_incentivo_max("scaldacqua", request) = C8_Cap
        /\ C8_Example(localResp)
        /\ C8_Example(apiResp)
C8_Witness ==
    /\ BothAnswered
    /\ Requested = <<"scaldacqua">>
    /\ RawInvoice("scaldacqua") = JNum(RInt(1000))
    /\ RawTech("scaldacqua") = ArrayOf(<<Model1>>)
    /\ localResp.data["scaldacqua"].incentivo_netto = Rat(39512, 100)

\* the zone coefficients the two copies use for the request
C9_Used ==
    <<kZona(PDC_K_ZONA, zona(request)), kZona(IBRIDO_K_ZONA, zona(request)),
      srv_kZona(srv_PDC_K_ZONA, srv_zona(request)), srv_kZona(srv_IBRIDO_K_ZONA, srv_zona(request))>>
C9_Entry(z) == <<PDC_K_ZONA[z], IBRIDO_K_ZONA[z], srv_PDC_K_ZONA[z], srv_IBRIDO_K_ZONA[z]>>
C9_ZoneE == <<Rat(32893, 100), Rat(41811, 100), Rat(32893, 100), Rat(41811, 100)>>
C9_Case == BothAnswered /\ (InList("pompa_calore") \/ InList("sistema_ibrido"))

\* C9 as stated: the coefficient is the zone-E one (328.93, resp. 418.11)
\* for every supplied zone code that is not in {A..F}, a missing zone, the
\* empty string, lowercase and garbage input included; for a code in {A..F}
\* it is the table entry of that zone.
C9_Original ==
    C9_Case =>
        IF request.zona.t = "string" /\ Len(request.zona.s) = 1 /\ request.zona.s[1] \in ZoneLetters
        THEN C9_Used = C9_Entry(request.zona.s[1])
        ELSE C9_Used = C9_ZoneE

\* C9 amended: the coefficient is the table entry of the supplied code after
\* trimming and uppercasing when that is one of A..F (so "a" selects zone A
\* and " f " zone F), and the zone-E coefficient in every other case: a
\* missing zone, the empty string, garbage.
C9_Normalized ==
    IF request.zona.t = "string" THEN ToUpperCase(Trim(request.zona.s)) ELSE <<>>
C9_ZoneCoefficient ==
    C9_Case =>
        IF Len(C9_Normalized) = 1 /\ C9_Normalized[1] \in ZoneLetters
        THEN C9_Used = C9_Entry(C9_Normalized[1])
        ELSE C9_Used = C9_ZoneE
C9_Witness ==
    /\ C9_Case
    /\ request.zona = JStr(<<"a">>)
    /\ RawTech("pompa_calore") = ArrayOf(<<Model1>>)
    /\ RawInvoice("pompa_calore") = JNum(RInt(5000))
    /\ InList("pompa_calore")
    /\ localResp.data["pompa_calore"].incentivo_lordo = Rat(174135, 100)

\* C10: for the zone-unaware classes scaldacqua and solare_termico the
\* result row does not depend on the climate zone: two requests that differ
\* only in property.address.immobile.zona_climatica (any value, or absent)
\* produce identical rows for these classes.  Stated against the request
\* without a zone: the row of every request, whatever its zone, is the row
\* of that request, so any two requests that differ only in the zone agree.
C10_RowsIgnoreZone ==
    \A tip \in {"scaldacqua", "solare_termico"} :
        (InList(tip) /\ BothAnswered) =>
            LET other == [request EXCEPT !.zona = JUndef] IN
            /\ computeIncentiveForTipologia(tip, other) = localResp.data[tip]
            /\ srv_computeIncentiveForTipologia(tip, other) = apiResp.data[tip]
C10_Witness ==
    /\ BothAnswered
    /\ Requested = <<"solare_termico", "scaldacqua">>
    /\ request.zona = JStr(<<"A">>)
    /\ RawTech("solare_termico") = ArrayOf(<<Model1>>)
    /\ RawInvoice("solare_termico") = JNum(RInt(5000))
    /\ localResp.data["solare_termico"].incentivo_lordo = RInt(700)

(***************************************************************************)
(* Properties of calculate(), checked under Spec                           *)
(***************************************************************************)
\* the step in which the POST settles and calculate() runs to its end
CalcReturns == calc.pc = "fetch" /\ calc'.pc = "idle"
LastEvent(run) == IF run.events = <<>> THEN "none" ELSE run.events[Len(run.events)]

\* C2: whenever calculate() renders a result row that calculateLocally
\* produced (the primary request failed), the warning text shown ends with
\* the fallback label, which follows the warning of the row, if any, after a
\* space, and the warnings element is visible; whenever the rendered row came
\* from the primary host the fallback label is not in the warning text.
C2_Label == "Calcolo eseguito in modalità statica (senza API)."
C2_LocalRow == localResp'.data[activeIntervention.tipologia]
C2_FallbackIsLabelled ==
    [][(CalcReturns /\ LastEvent(calc') = "render") =>
          IF localResp' # Pending
          THEN /\ ~warningsHidden'
               /\ warningsText' # NoText
               /\ warningsText'[Len(warningsText')] = C2_Label
               /\ warningsText' = IF C2_LocalRow.warnings = NoText THEN <<C2_Label>>
                                  ELSE C2_LocalRow.warnings \o <<" ", C2_Label>>
               /\ resultsBody'[1].incentivo_lordo = C2_LocalRow.incentivo_lordo
          ELSE /\ \A i \in DOMAIN warningsText' : warningsText'[i] # C2_Label
               /\ resultsBody'[1].incentivo_lordo =
                      apiResp.data[activeIntervention.tipologia].incentivo_lordo]_vars
C2_Witness ==
    /\ calc.pc = "idle"
    /\ LastEvent(calc) = "render"
    /\ calc.reply.kind = "reject"
    /\ localResp # Pending /\ localResp.success
    /\ ~resultsHidden
    /\ ~warningsHidden
    /\ warningsText = <<C2_Label>>

\* C3: in calculate(), calculateLocally is invoked exactly when the primary
\* request through fetchJson fails (the fetch is rejected, it is aborted
\* after the timeout, the status is not 2xx, or the body is not JSON) and
\* never when the primary returned a parsed JSON response; after such a
\* failure the fallback is called with the payload that was sent, before
\* calculate() shows any error.
C3_Failed(reply) ==
    \/ reply.kind \in {"reject", "abort"}
    \/ reply.kind = "response" /\ (~reply.ok \/ ~reply.parses)
C3_Before(events, a, b) ==
    \A j \in DOMAIN events : events[j] = b => \E i \in 1..(j - 1) : events[i] = a
C3_FallbackExactlyOnFailure ==
    [][CalcReturns =>
          /\ C3_Failed(calc'.reply) <=> localResp' # Pending
          /\ C3_Failed(calc'.reply) <=> calc'.localArgs # <<>>
          /\ C3_Failed(calc'.reply) =>
                /\ calc'.localArgs = <<calc.payload>>
                /\ C3_Before(calc'.events, "calculateLocally", "error")
                /\ status'.kind = "error" <=> LastEvent(calc') = "error"
          /\ status.kind # "error" \/ status.msg[1] # "Errore: "]_vars
C3_Witness ==
    /\ calc.pc = "idle"
    /\ calc.reply = [kind |-> "response", ok |-> TRUE, parses |-> FALSE]
    /\ calc.localArgs = <<calc.payload>>
    /\ localResp # Pending /\ localResp.success
    /\ calc.events = <<"fetchJson", "calculateLocally", "error">>
    /\ status = [kind |-> "error", msg |-> <<"Errore: ", "Risposta incompleta dal server.">>]

\* C11: for a non-empty curve with strictly increasing x, interpolate
\* returns the piecewise-linear function through the points: the first y
\* for an x at or below the first abscissa, the last y at or above the last
\* one, and between them y0 + (y1 - y0) * (x - x0) / (x1 - x0) on the first
\* segment that brackets x, with the value of that expression in the
\* rationals.  The Number returned is exactly the first or last y when
\* clamped; at an interior sample point x_i it is y_(i-1) + (y_i - y_(i-1))
\* in binary64, which is y_i for both curves of the program.  The neutral 1
\* is returned for the empty curve only, and the return after the loop is
\* never reached.  The server copy computes the same function.
C11_Reference(points, v) ==
    LET n == Len(points)
        x(i) == points[i][1]
        y(i) == points[i][2]
        on(i) == RAdd(y(i), RDiv(RMul(RSub(y(i + 1), y(i)), RSub(v, x(i))), RSub(x(i + 1), x(i))))
    IN  IF RLe(v, x(1)) THEN y(1)
        ELSE IF RGe(v, x(n)) THEN y(n)
        ELSE on(CHOOSE i \in 1..(n - 1) : RLt(x(i), v) /\ RLe(v, x(i + 1)))
C11_Value == parseNumberLike(arg)
C11_InteriorSample(i) == i \in 2..(Len(curve) - 1) /\ C11_Value = curve[i][1]
C11_InterpolateIsPiecewiseLinear ==
    /\ result.fn \in {"interpolate", "srv_interpolate"} =>
          result.exact = IF curve = <<>> THEN RInt(1) ELSE C11_Reference(curve, C11_Value)
    /\ result.fn = "interpolate" =>
          /\ result.number.ret = "empty" <=> curve = <<>>
          /\ result.number.ret # "fallback"
          /\ result.number.ret = "first" =>
                RLe(C11_Value, curve[1][1]) /\ result.number.value = F64(curve[1][2])
          /\ result.number.ret = "last" =>
                /\ RGe(C11_Value, curve[Len(curve)][1])
                /\ result.number.value = F64(curve[Len(curve)][2])
          /\ \A i \in DOMAIN curve : C11_InteriorSample(i) =>
                /\ result.number.ret = "segment"
                /\ result.number.value =
                      FAdd(F64(curve[i - 1][2]), FSub(F64(curve[i][2]), F64(curve[i - 1][2])))
                /\ curve \in {G_PDC_POINTS, G_IBRIDO_POINTS} =>
                      result.number.value = F64(curve[i][2])
C11_Witness ==
    /\ result.fn = "interpolate"
    /\ curve = G_PDC_POINTS
    /\ C11_InteriorSample(5)
    /\ result.number = [ret |-> "segment", value |-> F64(Rat(1, 1))]
\* the statement for every curve: exactly y_i at every interior sample point
C11_Original ==
    result.fn = "interpolate" =>
        \A i \in DOMAIN curve : C11_InteriorSample(i) => result.number.value = F64(curve[i][2])

\* C12: parseNumberLike, in the browser and on the server, returns a finite
\* number for every input: a finite number is returned unchanged; null,
\* undefined, NaN and the infinities, the empty or whitespace-only string,
\* and every string whose cleaned remainder (white space removed, the
\* decimal comma turned into a period, everything but digits, period and
\* minus dropped) does not start with a number, give 0.
C12_Applied == result.fn \in {"parseNumberLike", "srv_parseNumberLike"}
C12_Blank(text) == \A i \in DOMAIN text : text[i] \in WhiteSpace
C12_Cleaned(text) ==
    LET kept == SelectSeq(text, LAMBDA c : c \notin WhiteSpace)
        commas == {i \in DOMAIN kept : kept[i] = ","}
        both == commas # {} /\ \E i \in DOMAIN kept : kept[i] = "."
        first == CHOOSE i \in commas : \A j \in commas : i <= j
        decimal == [i \in DOMAIN kept |->
                        IF commas # {} /\ i = first THEN "."
                        ELSE IF both /\ kept[i] = "." THEN "x"
                        ELSE kept[i]]
    IN  SelectSeq(decimal, LAMBDA c : IsDigit(c) \/ c \in {".", "-"})
\* [-] digit..., or [-] . digit...
C12_StartsWithNumber(text) ==
    LET body == IF text # <<>> /\ text[1] = "-" THEN Tail(text) ELSE text
    IN  \/ body # <<>> /\ IsDigit(body[1])
        \/ Len(body) >= 2 /\ body[1] = "." /\ IsDigit(body[2])
C12_ParseNumberLikeIsTotal ==
    C12_Applied =>
        /\ result.exact[2] > 0
        /\ arg.t = "number" /\ arg.n[2] # 0 => result.exact = arg.n
        /\ arg.t = "number" /\ arg.n[2] = 0 => result.exact = RZero
        /\ arg.t \in {"null", "undefined"} => result.exact = RZero
        /\ arg.t = "string" /\ C12_Blank(arg.s) => result.exact = RZero
        /\ arg.t = "string" /\ ~C12_StartsWithNumber(C12_Cleaned(arg.s)) => result.exact = RZero
        /\ arg.t = "string" /\ result.exact # RZero => C12_StartsWithNumber(C12_Cleaned(arg.s))
C12_Witness ==
    /\ result.fn = "parseNumberLike"
    /\ arg = JStr(<<",", ".", "-", "1">>)
    /\ C12_Cleaned(arg.s) = <<".", "-", "1">>
    /\ result.exact = RZero

\* C13: in the row of every supported class, on both hosts, percent_reale
\* is "0.0" whenever the coerced invoice amount is not greater than 0
\* (missing, unparsable, zero or negative), whatever the gross incentive;
\* otherwise it is (gross incentive / totale) * 100, the gross incentive
\* not yet rounded, written with exactly one decimal digit: a decimal
\* numeral within 0.05 of that value.
C13_OneDecimal(text) ==
    LET body == IF text # <<>> /\ text[1] = "-" THEN Tail(text) ELSE text
    IN  /\ Len(body) >= 3
        /\ body[Len(body) - 1] = "."
        /\ \A i \in DOMAIN body : i # Len(body) - 1 => IsDigit(body[i])
C13_Near(text, value) ==
    LET d == RSub(parseNumberLike(JStr(text)), value)
    IN  RLe(d, Rat(1, 20)) /\ RLe(RNeg(d), Rat(1, 20))
C13_Holds(tip, gross, resp) ==
    LET totale == IF RawInvoice(tip) = JUndef THEN RZero ELSE parseNumberLike(RawInvoice(tip))
        shown == resp.data[tip].percent_reale
    IN  IF RLe(totale, RZero) THEN shown = <<"0", ".", "0">>
        ELSE /\ C13_OneDecimal(shown)
             /\ C13_Near(shown, RMul(RDiv(gross, totale), RInt(100)))
C13_PercentOfInvoice ==
    \A tip \in {"scaldacqua", "solare_termico", "pompa_calore", "sistema_ibrido"} :
        (InList(tip) /\ BothAnswered) =>
            /\ C13_Holds(tip, incentivo_lordo(tip, request), localResp)
            /\ C13_Holds(tip, srv_incentivo_lordo(tip, request), apiResp)
C13_Witness ==
    /\ BothAnswered
    /\ InList("pompa_calore")
    /\ RawInvoice("pompa_calore") = JNum(RInt(-200))
    /\ localResp.data["pompa_calore"].incentivo_lordo # RZero
    /\ localResp.data["pompa_calore"].percent_reale = <<"0", ".", "0">>
    /\ apiResp.data["pompa_calore"].percent_reale = <<"0", ".", "0">>

\* C14: when the response that calculate() obtained, from the primary host
\* or from the fallback, has success = false or holds no row for the class
\* of the active intervention, calculate() renders nothing: the rows of the
\* results table, the visibility of the results and the warnings element
\* stay as they were, and the status becomes an error message.
C14_Response == IF calc'.usedLocalFallback THEN localResp' ELSE JsonResponse(apiResp)
C14_NoRow(resp) ==
    \/ ~resp.success
    \/ ~(resp.hasData /\ activeIntervention.tipologia \in DOMAIN resp.data)
C14_ErrorLeavesResults ==
    [][(CalcReturns /\ C14_NoRow(C14_Response)) =>
          /\ resultsBody' = resultsBody
          /\ resultsHidden' = resultsHidden
          /\ warningsHidden' = warningsHidden /\ warningsText' = warningsText
          /\ status'.kind = "error" /\ status'.msg # NoText]_vars
\* a second calculation has failed and the row of the first is still shown
C14_Witness ==
    /\ calc.pc = "idle" /\ calc.runs = 2
    /\ LastEvent(calc) = "error"
    /\ status.kind = "error"
    /\ ~resultsHidden /\ resultsBody # <<>>

\* C15: the row that calculate() renders is labelled with the intervention
\* that was active when the payload was built, and is read from the entry
\* of that intervention's class, whatever the user switches to while the
\* request is pending: a row computed for the model of one intervention is
\* never shown under the label of another.  (calc.iv is the `iv` that
\* buildPayload read.)
C15_Rendered == CalcReturns /\ LastEvent(calc') = "render"
C15_RowOfTheBuiltIntervention ==
    [][C15_Rendered =>
          /\ resultsBody'[1].label = calc.iv.label
          /\ activeIntervention.key = calc.iv.key]_vars
\* what the code does: the label and the class are those of the intervention
\* that is active when the response arrives
C15_RowOfTheActiveIntervention ==
    [][C15_Rendered =>
          /\ resultsBody'[1].label = activeIntervention.label
          /\ activeIntervention.tipologia = calc.iv.tipologia
          /\ ~resultsHidden']_vars

\* C16: once every pending catalog load has completed, state.availableModels
\* is the filtered catalog of the intervention that is active, in whatever
\* order the switches and the completions happened: a load started for an
\* earlier intervention never overwrites the models of a later one.
C16_Settled == loads = <<>>
C16_ModelsOfTheActiveIntervention ==
    C16_Settled =>
        /\ activeIntervention.catalogType \in DOMAIN catalogs
        /\ availableModels =
              FilteredCatalog(activeIntervention, catalogs[activeIntervention.catalogType])
\* what the code does: the models are those of the load that completed last
C16_ModelsOfSomeLoadedIntervention ==
    C16_Settled =>
        \E i \in DOMAIN INTERVENTIONS :
            /\ INTERVENTIONS[i].catalogType \in DOMAIN catalogs
            /\ availableModels =
                  FilteredCatalog(INTERVENTIONS[i], catalogs[INTERVENTIONS[i].catalogType])

\* C18: in every reachable state of the page, state.zonaClimatica is one of
\* A, B, C, D, E, F: it starts as E, picking a city changes it only to one
\* of the six letters, a change of the zone selector turns every other
\* value into E, and reset sets it to E; so the payload that buildPayload
\* builds never carries a zone outside A..F.
C18_Zones == {<<"A">>, <<"B">>, <<"C">>, <<"D">>, <<"E">>, <<"F">>}
C18_ZoneIsALetter ==
    /\ zonaClimatica \in C18_Zones
    /\ buildPayload.zona \in {JUndef} \cup {JStr(z) : z \in C18_Zones}
    /\ calc.pc = "fetch" => calc.payload.zona \in {JUndef} \cup {JStr(z) : z \in C18_Zones}
\* Roma, in zone D, is still selected after the selector was set to a value
\* that is no zone
C18_Witness ==
    /\ selectedCity # NoCity /\ selectedCity.comune = "Roma"
    /\ zonaClimatica = <<"E">>
    /\ calc.pc = "fetch" /\ calc.payload.zona = JStr(<<"E">>)

\* C17: every calculate() that passes validation eventually finishes with
\* the calculate button enabled again and with a rendered row or an error
\* status, whether the primary host answers, the primary fails and the
\* fallback succeeds, or both fail; the button is disabled as long as the
\* request is pending, so no second calculation starts meanwhile.
C17_Pending == calc.pc = "fetch"
C17_Finished ==
    /\ calc.pc = "idle"
    /\ ~calculateBtnDisabled
    /\ \/ LastEvent(calc) = "render" /\ resultsBody # <<>> /\ ~resultsHidden
       \/ LastEvent(calc) = "error" /\ status.kind = "error"
C17_CalculateFinishes ==
    /\ C17_Pending ~> C17_Finished
    /\ [](C17_Pending <=> calculateBtnDisabled)
    /\ [][C17_Pending => (calc'.runs = calc.runs /\ calc'.payload = calc.payload)]_vars
\* both hosts have failed: the primary gave no answer and the fallback
\* returned success = false, or the primary answered success = false
C17_Witness ==
    /\ C17_Finished
    /\ LastEvent(calc) = "error"
    /\ calc.reply.kind = "response" /\ calc.reply.ok /\ calc.reply.parses
    /\ calc.runs = 2
====
